---- MODULE Spec2Model ----
(***************************************************************************)
(* Graph persistence and crawl/discovery engine of void-browser.           *)
(* The active graph is the SQLite file void.db (tables nodes and edges);   *)
(* every Tauri command opens it, runs its statements and returns.          *)
(***************************************************************************)
EXTENDS Integers, Sequences, FiniteSets, Bags, TLC

\* ---------------------------------------------------------------- bounds
StoreMaxId == 2     \* highest rowid the nodes table hands out under SpecStore
MergeMaxId == 3     \* ... under SpecMerge
CreateMaxId == 2    \* ... under SpecCreate
MaxSourceId == 1    \* discovery is run from the nodes 1..MaxSourceId
CrawlMaxId == 2     \* crawls are asked for the node ids 1..CrawlMaxId
MaxTime == 2        \* clock values 0..MaxTime (one unit = one day)
MaxLinks == 2       \* longest link list a fetch returns
MaxNewNodes == 2    \* max_new_nodes ranges over 0..MaxNewNodes
MaxStaleDays == 1   \* stale_days ranges over 0..MaxStaleDays
MaxPaths == 2       \* longest session_paths list of one merge_sessions call
MaxDriveDays == 2   \* largest stale_days an auto-crawl loop is run with
MaxHrefs == 4       \* most <a href> elements of one fetched document

\* ------------------------------------------------------ Option<T>, NULL
None == <<>>
Some(x) == <<x>>
unwrap(o) == o[1]

\* COALESCE(?, col): the first argument unless it is NULL
COALESCE(a, b) == IF a # None THEN a ELSE b

\* ------------------------------------------------------------------ URLs
\* A URL is scheme://host/path with the scheme fixed; host and path are
\* kept apart so that host_str() and to_lowercase() can be computed.
Url(h, p) == [host |-> h, path |-> p]

Urls == {Url("a", "x"), Url("a", "X"), Url("b", "x")}

\* the URLs a user adds by hand under SpecDiscover and SpecCrawl
Seeds == {Url("a", "x"), Url("b", "x")}

\* a nodes table holds each URL once: it never has more rows than there are URLs
UrlCount == Cardinality(Urls)

lower_char(c) == CASE c = "X" -> "x" [] c = "A" -> "a" [] c = "B" -> "b" [] OTHER -> c

to_lowercase(u) == [host |-> lower_char(u.host), path |-> lower_char(u.path)]

\* the whole URL taken where the host is meant
url_as_host(u) == u

\* url::Url::parse(u).host_str()
host_str(u) == u.host

\* ------------------------------------------------------------ the store
VARIABLES
    nodes,      \* nodes table: id -> row
    edges,      \* edges table: bag of <<source_id, target_id>> rows
    node_seq,   \* sqlite_sequence of nodes (AUTOINCREMENT never reuses an id)
    now,        \* datetime('now')
    ret,        \* the last command, its arguments and what it returned
    calls,      \* discover_links_from_node calls in flight: caller -> locals
    driver      \* the auto-crawl loop of the caller: where it stands

vars == <<nodes, edges, node_seq, now, ret, calls, driver>>

\* title TEXT has no NOT NULL: a row's title is a string or the SQL NULL, kept
\* here as this value
NullText == "<NULL>"

\* is_alive INTEGER: 1 / 0
VoidNode(url, title, favicon, screenshot, pos, is_alive, last_crawled, created_at) ==
    [url |-> url, title |-> title, favicon |-> favicon, screenshot |-> screenshot,
     position |-> pos, is_alive |-> is_alive, last_crawled |-> last_crawled,
     created_at |-> created_at]

\* a nodes table whose url column is declared without UNIQUE
url_not_unique(ns, u) == FALSE

\* url TEXT NOT NULL UNIQUE
url_unique_violation(ns, u) == \E i \in DOMAIN ns : ns[i].url = u

\* SELECT id FROM nodes WHERE url = ?  (.ok(): None when no row matches)
select_id(ns, u) ==
    IF \E i \in DOMAIN ns : ns[i].url = u
    THEN Some(CHOOSE i \in DOMAIN ns : ns[i].url = u)
    ELSE None

\* INSERT INTO nodes ...: the row gets rowid seq + 1
insert_row(ns, seq, row) == [i \in DOMAIN ns \cup {seq + 1} |-> IF i = seq + 1 THEN row ELSE ns[i]]

\* UNIQUE(source_id, target_id)
edge_unique_violation(es, s, t) == BagIn(<<s, t>>, es)

\* INSERT INTO edges on a table without UNIQUE(source_id, target_id)
insert_edge_unchecked(es, s, t) == es (+) SetToBag({<<s, t>>})

\* INSERT OR IGNORE INTO edges (source_id, target_id): the table afterwards
insert_or_ignore_edge(es, s, t) ==
    IF edge_unique_violation(es, s, t) THEN es ELSE es (+) SetToBag({<<s, t>>})

\* the statement succeeded: counted whether or not a row was added
insert_edge_ok_count(es, s, t) == 1

\* rows changed by INSERT OR IGNORE INTO edges
insert_or_ignore_edge_count(es, s, t) ==
    IF edge_unique_violation(es, s, t) THEN 0 ELSE 1

\* no command is running and the last response has been taken
Idle == [op |-> "idle"]

\* no auto-crawl loop is running
Off == [pc |-> "off"]

Init ==
    /\ nodes = << >>
    /\ edges = EmptyBag
    /\ node_seq = 0
    /\ now = 0
    /\ ret = Idle
    /\ calls = << >>
    /\ driver = Off

\* --------------------------------------------------------------- GraphStore
Titles == {"t0"}
RandomPositions == {0}
GivenPositions == {5}

\* INSERT OR IGNORE INTO nodes (url, title, position, is_alive, created_at)
insert_or_ignore_node(ns, seq, url, title, pos, t) ==
    IF url_unique_violation(ns, url) THEN ns
    ELSE insert_row(ns, seq, VoidNode(url, title, None, None, pos, 1, None, t))

add_node_with_position(url, title, x) ==
    /\ LET after == insert_or_ignore_node(nodes, node_seq, url, title, x, now)
           inserted == after # nodes
       IN /\ nodes' = after
          /\ node_seq' = IF inserted THEN node_seq + 1 ELSE node_seq
          \* last_insert_rowid() of a connection that inserted nothing is 0
          /\ ret' = [op |-> "add_node", url |-> url, ok |-> TRUE,
                     id |-> IF inserted THEN node_seq + 1 ELSE 0]
    /\ UNCHANGED <<edges, now>>

add_node_url(url, title) ==
    \E x \in RandomPositions : add_node_with_position(url, title, x)

\* the rows the statement reaches: INSERT OR IGNORE INTO edges on the active
\* graph.  rusqlite's bundled SQLite enforces the FOREIGN KEY clauses, a system
\* SQLite does not: an edge naming a missing node is rejected or stored.
\* Ok(()): what add_edge hands back after its INSERT OR IGNORE on the edges es
add_edge_value(es, source_id, target_id) == "()"

add_edge(source_id, target_id, foreign_keys) ==
    /\ IF foreign_keys /\ ~({source_id, target_id} \subseteq DOMAIN nodes)
       THEN /\ edges' = edges
            /\ ret' = [op |-> "add_edge", source_id |-> source_id, target_id |-> target_id,
                       ok |-> FALSE, err |-> "FOREIGN KEY constraint failed"]
       ELSE /\ edges' = insert_or_ignore_edge(edges, source_id, target_id)
            /\ ret' = [op |-> "add_edge", source_id |-> source_id, target_id |-> target_id,
                       ok |-> TRUE, val |-> add_edge_value(edges, source_id, target_id)]
    /\ UNCHANGED <<nodes, node_seq, now>>

\* DELETE FROM edges WHERE source_id = ? OR target_id = ?
delete_edges_of(es, id) ==
    [e \in {x \in DOMAIN es : x[1] # id /\ x[2] # id} |-> es[e]]

\* DELETE FROM nodes WHERE id = ?
delete_node_row(ns, id) == [i \in DOMAIN ns \ {id} |-> ns[i]]

delete_node(id) ==
    /\ edges' = delete_edges_of(edges, id)
    /\ nodes' = delete_node_row(nodes, id)
    /\ ret' = [op |-> "delete_node", id |-> id, ok |-> TRUE]
    /\ UNCHANGED <<node_seq, now>>

\* ------------------------------------------------------------ MetadataFetcher
Ok(v) == [ok |-> TRUE, val |-> v]
Err(e) == [ok |-> FALSE, err |-> e]

FetchedTitles == {None, Some("t1")}
FetchedFavicons == {Some("f1")}

\* client.get(url).send() failed: DNS, connect, timeout, malformed URL
TransportError == Err("transport")

\* if !response.status().is_success() { return Ok((None, None, false)) }
NonSuccessStatus == Ok([title |-> None, favicon |-> None, is_alive |-> FALSE])

\* fetch_page_metadata: a transport failure, a non-success status, or a parsed
\* page (its favicon is never absent: /favicon.ico is the fallback)
fetch_page_metadata ==
    {TransportError, NonSuccessStatus}
    \cup {Ok([title |-> t, favicon |-> f, is_alive |-> TRUE]) :
            t \in FetchedTitles, f \in FetchedFavicons}

\* the link lists a fetch can return: no URL twice, at most MaxLinks long
SeqsUpTo(S, n) == UNION {[1..k -> S] : k \in 0..n}
LinkLists == {l \in SeqsUpTo(Urls, MaxLinks) : \A i, j \in DOMAIN l : l[i] = l[j] => i = j}

\* return Ok((None, None, false, vec![]))
NonSuccessStatusNoLinks ==
    Ok([title |-> None, favicon |-> None, is_alive |-> FALSE, links |-> <<>>])

fetch_page_metadata_with_links ==
    {TransportError, NonSuccessStatusNoLinks}
    \cup {Ok([title |-> t, favicon |-> f, is_alive |-> TRUE, links |-> l]) :
            t \in FetchedTitles, f \in FetchedFavicons, l \in LinkLists}

\* ------------------------------------------------------------ LinkExtractor
\* An href attribute is the text it starts with (lead) followed by the rest of
\* the reference: host and path, whether a #fragment follows, how many '/' the
\* path ends in, and whether the cleaned URL has 500 characters or more.
Href(lead, host, path, fragment, slash, long) ==
    [lead |-> lead, host |-> host, path |-> path, fragment |-> fragment,
     slash |-> slash, long |-> long]

\* the <a href> values a document can carry
Hrefs ==
    {Href("/", "", "about", FALSE, 0, FALSE),
     Href("https://", "other.com", "x", FALSE, 0, FALSE),
     Href("#", "", "frag", FALSE, 0, FALSE),
     Href("mailto:", "", "a@b.com", FALSE, 0, FALSE),
     Href("javascript:", "", "void(0)", FALSE, 0, FALSE),
     Href("//", "other.com", "x", TRUE, 0, FALSE),
     Href("", "", "about", FALSE, 1, FALSE),
     Href("http://", "other.com", "x", FALSE, 0, FALSE),
     Href("http", "", "docs", FALSE, 0, FALSE),
     Href("https://", "other.com", "long", FALSE, 0, TRUE),
     Href("https://", "other.com", "x", FALSE, 2, FALSE)}

\* format!("{}://{}", parsed_url.scheme(), parsed_url.host_str().unwrap_or(""))
BaseUrls == {[scheme |-> "https", host |-> "example.com"]}

\* the prefixes of each lead that the extraction tests for
prefixes(lead) ==
    CASE lead = "//" -> {"//", "/"}
      [] lead = "/" -> {"/"}
      [] lead = "http://" -> {"http://", "http"}
      [] lead = "https://" -> {"https://", "http"}
      [] lead = "http" -> {"http"}
      [] lead = "#" -> {"#"}
      [] lead = "javascript:" -> {"javascript:"}
      [] lead = "mailto:" -> {"mailto:"}
      [] OTHER -> {}

starts_with(href, prefix) == prefix \in prefixes(href.lead)

\* only '#' ends the cascade: javascript: and mailto: are taken as relative
is_skipped_fragment_only(href) == starts_with(href, "#")

\* the final else branch of the cascade: continue
is_skipped(href) ==
    starts_with(href, "#") \/ starts_with(href, "javascript:") \/ starts_with(href, "mailto:")

\* a relative reference keeps its own text, lead included, as the path
relative_path(href) == IF href.lead = "" THEN href.path ELSE href.lead \o href.path

\* let normalized = if href.starts_with("//") { "https:" + href } else if ...
normalized(href, base_url) ==
    IF starts_with(href, "//") THEN Some([href EXCEPT !.lead = "https://"])
    ELSE IF starts_with(href, "/")
        THEN Some([href EXCEPT !.lead = base_url.scheme \o "://", !.host = base_url.host])
    ELSE IF starts_with(href, "http") THEN Some(href)
    ELSE IF ~is_skipped(href)
        THEN Some([href EXCEPT !.lead = base_url.scheme \o "://", !.host = base_url.host,
                               !.path = relative_path(href)])
    ELSE None

Link(scheme, host, path) == [scheme |-> scheme, host |-> host, path |-> path]

\* the text of k consecutive '/'
RECURSIVE trailing(_)
trailing(k) == IF k = 0 THEN "" ELSE "/" \o trailing(k - 1)

\* str::trim_end_matches('/') removes every '/' the text ends in: the number
\* of trailing '/' it leaves
trim_end_matches(slash) == 0

\* parsed.set_fragment(None); parsed.to_string().trim_end_matches('/')
clean_url(n) ==
    Link(IF n.lead = "https://" THEN "https" ELSE "http", n.host,
         n.path \o trailing(trim_end_matches(n.slash)))

contains(links, l) == \E i \in DOMAIN links : links[i] = l

\* one iteration of the loop over a[href]
push_link(links, href, base_url) ==
    LET n == normalized(href, base_url)
    IN IF n = None THEN links
       ELSE IF unwrap(n).lead \in {"http://", "https://"}
           THEN IF ~contains(links, clean_url(unwrap(n))) /\ ~unwrap(n).long
                    THEN Append(links, clean_url(unwrap(n)))
                    ELSE links
       ELSE links

RECURSIVE extract_loop(_, _, _)
extract_loop(links, hrefs, base_url) ==
    IF hrefs = <<>> THEN links
    ELSE extract_loop(push_link(links, Head(hrefs), base_url), Tail(hrefs), base_url)

\* for el in document.select("a[href]") { ... }
extract_links(hrefs, base_url) == extract_loop(<<>>, hrefs, base_url)

\* ------------------------------------------------------------ CrawlScheduler
StaleDays == 0..MaxStaleDays

\* WHERE last_crawled IS NULL OR last_crawled < datetime('now', '-N days')
is_candidate(row, t, stale_days) ==
    row.last_crawled = None \/ unwrap(row.last_crawled) < t - stale_days

\* a query without ORDER BY: no row is placed before another
order_unspecified(r1, r2) == FALSE

\* ORDER BY CASE WHEN last_crawled IS NULL THEN 0 ELSE 1 END, last_crawled ASC
order_before(r1, r2) ==
    LET c1 == IF r1.last_crawled = None THEN 0 ELSE 1
        c2 == IF r2.last_crawled = None THEN 0 ELSE 1
    IN \/ c1 < c2
       \/ c1 = c2 /\ c1 = 1 /\ unwrap(r1.last_crawled) < unwrap(r2.last_crawled)

\* LIMIT 1: the ids the query may return, empty when no row qualifies
next_crawl_targets(ns, t, stale_days) ==
    LET cand == {i \in DOMAIN ns : is_candidate(ns[i], t, stale_days)}
    IN {i \in cand : \A j \in cand : ~order_before(ns[j], ns[i])}

\* stmt.query_row([], |row| Ok(VoidNode { ..., title: row.get(2)?, ... })).ok():
\* title is a String, so a NULL title fails the conversion and .ok() makes
\* the failure a None
row_to_node(ns, i) == IF ns[i].title = NullText THEN None ELSE Some(i)

get_next_crawl_target(stale_days) ==
    /\ LET first == next_crawl_targets(nodes, now, stale_days)
       IN \/ /\ first = {}
             /\ ret' = [op |-> "get_next_crawl_target", stale_days |-> stale_days,
                        node |-> None]
          \/ \E i \in first :
                ret' = [op |-> "get_next_crawl_target", stale_days |-> stale_days,
                        node |-> row_to_node(nodes, i)]
    /\ UNCHANGED <<nodes, edges, node_seq, now>>

\* SELECT COUNT(*) FROM nodes WHERE last_crawled IS NULL OR last_crawled < ...
nodes_pending(ns, t, stale_days) ==
    Cardinality({i \in DOMAIN ns : is_candidate(ns[i], t, stale_days)})

\* SELECT id, url FROM nodes WHERE last_crawled IS NOT NULL
\* ORDER BY last_crawled DESC LIMIT 1: the ids the query may return
last_crawled_rows(ns) ==
    LET crawled == {i \in DOMAIN ns : ns[i].last_crawled # None}
    IN {i \in crawled :
           \A j \in crawled : unwrap(ns[j].last_crawled) <= unwrap(ns[i].last_crawled)}

get_auto_crawl_status(stale_days) ==
    /\ LET last == last_crawled_rows(nodes)
           pending == nodes_pending(nodes, now, stale_days)
       IN \/ /\ last = {}
             /\ ret' = [op |-> "get_auto_crawl_status", stale_days |-> stale_days,
                        nodes_pending |-> pending,
                        last_crawled_id |-> None, last_crawled_url |-> None]
          \/ \E i \in last :
                ret' = [op |-> "get_auto_crawl_status", stale_days |-> stale_days,
                        nodes_pending |-> pending,
                        last_crawled_id |-> Some(i), last_crawled_url |-> Some(nodes[i].url)]
    /\ UNCHANGED <<nodes, edges, node_seq, now>>

\* -------------------------------------------------------- SingleNodeCrawler
\* UPDATE nodes SET title = ?, favicon = ? ...: NULL overwrites what is stored
\* (title is NOT NULL, so a NULL title still leaves the row's title)
update_crawled_overwrite(ns, id, title, favicon, is_alive, t) ==
    [ns EXCEPT ![id] = [@ EXCEPT !.title = IF title # None THEN unwrap(title) ELSE @,
                                 !.favicon = favicon,
                                 !.is_alive = IF is_alive THEN 1 ELSE 0,
                                 !.last_crawled = Some(t)]]

\* UPDATE nodes SET title = COALESCE(title, ?), favicon = COALESCE(favicon, ?):
\* the stored value wins whenever there is one
update_crawled_stored_first(ns, id, title, favicon, is_alive, t) ==
    [ns EXCEPT ![id] = [@ EXCEPT !.favicon = COALESCE(@, favicon),
                                 !.is_alive = IF is_alive THEN 1 ELSE 0,
                                 !.last_crawled = Some(t)]]

\* the same UPDATE without its WHERE id = ?: every row is written
update_crawled_every_row(ns, id, title, favicon, is_alive, t) ==
    [i \in DOMAIN ns |->
        [ns[i] EXCEPT !.title = unwrap(COALESCE(title, Some(@))),
                      !.favicon = COALESCE(favicon, @),
                      !.is_alive = IF is_alive THEN 1 ELSE 0,
                      !.last_crawled = Some(t)]]

\* UPDATE nodes SET title = COALESCE(?, title), favicon = COALESCE(?, favicon),
\*                  is_alive = ?, last_crawled = datetime('now') WHERE id = ?
update_crawled(ns, id, title, favicon, is_alive, t) ==
    [ns EXCEPT ![id] = [@ EXCEPT !.title = unwrap(COALESCE(title, Some(@))),
                                 !.favicon = COALESCE(favicon, @),
                                 !.is_alive = IF is_alive THEN 1 ELSE 0,
                                 !.last_crawled = Some(t)]]

\* UPDATE nodes SET is_alive = 0 WHERE id = ?
update_dead_no_stamp(ns, id, t) == [ns EXCEPT ![id] = [@ EXCEPT !.is_alive = 0]]

\* UPDATE nodes SET last_crawled = datetime('now') WHERE id = ?
update_dead_keeps_alive(ns, id, t) == [ns EXCEPT ![id] = [@ EXCEPT !.last_crawled = Some(t)]]

\* UPDATE nodes SET is_alive = 0, last_crawled = datetime('now') WHERE id = ?
update_dead(ns, id, t) ==
    [ns EXCEPT ![id] = [@ EXCEPT !.is_alive = 0, !.last_crawled = Some(t)]]

\* Err(e) => { ...; Err(e) }: the failure handed on to the caller
crawl_error_propagated(node_id, e) == Err(e)

\* Err(e) => { ...; Ok(CrawlResult { ..., is_alive: false, error: Some(e) }) }
crawl_error_result(node_id, e) ==
    Ok([node_id |-> node_id, title |-> None, favicon |-> None, is_alive |-> FALSE,
        error |-> Some(e)])

\* the lookup of the node found no row, and the command went on with nothing
not_found_ignored(message) == Ok(message)

\* conn.query_row("SELECT url ... WHERE id = ?").map_err(|e| format!(...))?
not_found(message) == Err(message)

\* fetched: whether the command got as far as fetching the page
crawl_single_node(node_id, result) ==
    /\ IF node_id \notin DOMAIN nodes
       THEN /\ nodes' = nodes
            /\ ret' = [op |-> "crawl_single_node", node_id |-> node_id,
                       fetch |-> result, fetched |-> FALSE,
                       result |-> not_found("Node not found")]
       ELSE IF result.ok
       THEN /\ nodes' = update_crawled(nodes, node_id, result.val.title,
                                       result.val.favicon, result.val.is_alive, now)
            /\ ret' = [op |-> "crawl_single_node", node_id |-> node_id,
                       fetch |-> result, fetched |-> TRUE,
                       result |-> Ok([node_id |-> node_id, title |-> result.val.title,
                                      favicon |-> result.val.favicon,
                                      is_alive |-> result.val.is_alive, error |-> None])]
       ELSE /\ nodes' = update_dead(nodes, node_id, now)
            /\ ret' = [op |-> "crawl_single_node", node_id |-> node_id,
                       fetch |-> result, fetched |-> TRUE,
                       result |-> crawl_error_result(node_id, result.err)]
    /\ UNCHANGED <<edges, node_seq, now>>

\* UPDATE nodes SET last_crawled = NULL WHERE is_alive = 1
clear_last_crawled_alive(ns) ==
    [i \in DOMAIN ns |-> IF ns[i].is_alive = 1 THEN [ns[i] EXCEPT !.last_crawled = None]
                                              ELSE ns[i]]

\* UPDATE nodes SET last_crawled = NULL
clear_last_crawled(ns) == [i \in DOMAIN ns |-> [ns[i] EXCEPT !.last_crawled = None]]

reset_all_crawl_timestamps ==
    /\ nodes' = clear_last_crawled(nodes)
    /\ ret' = [op |-> "reset_all_crawl_timestamps", count |-> Cardinality(DOMAIN nodes)]
    /\ UNCHANGED <<edges, node_seq, now>>

\* the clock moves on between commands
Tick ==
    /\ now' = now + 1
    /\ UNCHANGED <<nodes, edges, node_seq, ret>>

\* ------------------------------------------------------------ DiscoveryEngine
MinDistance == 8

\* generate_nearby_position: the source's position moved by the random offset
generate_nearby_position(source_pos, offset) == source_pos + offset

NearbyOffsets == {MinDistance}

\* if nodes_added > max_new_nodes { break; }
cap_passed(nodes_added, max_new_nodes) == nodes_added > max_new_nodes

\* if nodes_added >= max_new_nodes { break; }
cap_reached(nodes_added, max_new_nodes) == nodes_added >= max_new_nodes

\* a discovered node that counts as crawled at the time of its discovery
discovered_node_stamped(link, source, offset, t) ==
    VoidNode(link, host_str(link), None, None,
             generate_nearby_position(source.position, offset), 1, Some(t), t)

\* INSERT INTO nodes (url, title, position_x, position_y, position_z, is_alive,
\* created_at) VALUES (link, domain, x, y, z, 1, datetime('now'))
discovered_node(link, source, offset, t) ==
    VoidNode(link, host_str(link), None, None,
             generate_nearby_position(source.position, offset), 1, None, t)

\* a link to a node the graph has is passed over
skip_existing(st, link, node_id) == st

\* if existing_urls.contains(link) { SELECT id ...; INSERT OR IGNORE INTO edges
\* ...; if result.is_ok() && result.unwrap() > 0 { edges_added += 1 } continue }
link_existing(st, link, node_id) ==
    IF select_id(st.nodes, link) # None
    THEN LET tid == unwrap(select_id(st.nodes, link))
         IN [st EXCEPT !.edges = insert_or_ignore_edge(@, node_id, tid),
                       !.edges_added = @ + insert_or_ignore_edge_count(st.edges, node_id, tid)]
    ELSE st

\* a rejected insert treated as the discovery of an existing node
link_after_rejection(st, link, node_id) == link_existing(st, link, node_id)

\* if let Ok(_) = insert_result { ... }: there is no else, a rejected
\* INSERT INTO nodes leaves the tables and the counters as they are
insert_rejected(st, link, node_id) == st

\* a loop that tests the cap only where it is about to create a node: links to
\* existing nodes get their edge wherever they stand
discover_link_cap_on_create(st, link, node_id, source, max_new_nodes, external_only, offset, t) ==
    IF link \in st.existing_urls
    THEN link_existing(st, link, node_id)
    ELSE IF cap_reached(st.nodes_added, max_new_nodes) THEN st
    ELSE IF external_only /\ host_str(link) = host_str(source.url) THEN st
    ELSE IF url_unique_violation(st.nodes, link) THEN insert_rejected(st, link, node_id)
    ELSE LET new_id == st.seq + 1
             row == discovered_node(link, source, offset, t)
         IN [st EXCEPT !.nodes = insert_row(@, st.seq, row),
                       !.seq = new_id,
                       !.new_node_ids = Append(@, new_id),
                       !.existing_urls = @ \cup {link},
                       !.nodes_added = @ + 1,
                       !.edges = insert_or_ignore_edge(@, node_id, new_id),
                       !.edges_added = @ + 1]

\* one turn of `for link in links.iter()`; st holds the tables and the locals
discover_link(st, link, node_id, source, max_new_nodes, external_only, offset, t) ==
    IF cap_reached(st.nodes_added, max_new_nodes) THEN [st EXCEPT !.stopped = TRUE]
    ELSE IF link \in st.existing_urls
    THEN link_existing(st, link, node_id)
    ELSE IF external_only /\ host_str(link) = host_str(source.url) THEN st
    ELSE IF url_unique_violation(st.nodes, link) THEN insert_rejected(st, link, node_id)
    ELSE LET new_id == st.seq + 1
             row == discovered_node(link, source, offset, t)
         IN [st EXCEPT !.nodes = insert_row(@, st.seq, row),
                       !.seq = new_id,
                       !.new_node_ids = Append(@, new_id),
                       !.existing_urls = @ \cup {link},
                       !.nodes_added = @ + 1,
                       !.edges = insert_or_ignore_edge(@, node_id, new_id),
                       !.edges_added = @ + 1]

RECURSIVE discover_loop(_, _, _, _, _, _, _, _, _)
discover_loop(st, links, i, node_id, source, max_new_nodes, external_only, offset, t) ==
    IF i > Len(links) \/ st.stopped THEN st
    ELSE discover_loop(
            discover_link(st, links[i], node_id, source, max_new_nodes, external_only, offset, t),
            links, i + 1, node_id, source, max_new_nodes, external_only, offset, t)

\* links_found: st.edges_added, the links that ended in an edge
links_linked(links, st) == st.edges_added

\* links_found: links.len(), whatever the loop did with them (st)
links_found(links, st) == Len(links)

\* SELECT url FROM nodes, collected into the HashSet
select_urls(ns) == {ns[i].url : i \in DOMAIN ns}

discover_links_from_node(node_id, max_new_nodes, external_only, fetch_result, offset) ==
    IF node_id \notin DOMAIN nodes
    THEN /\ ret' = [op |-> "discover_links_from_node", node_id |-> node_id,
                    max_new_nodes |-> max_new_nodes, external_only |-> external_only,
                    fetch |-> fetch_result, fetched |-> FALSE,
                    result |-> not_found("Source node not found")]
         /\ UNCHANGED <<nodes, edges, node_seq, now>>
    ELSE IF ~fetch_result.ok
    THEN /\ nodes' = update_dead(nodes, node_id, now)
         /\ ret' = [op |-> "discover_links_from_node", node_id |-> node_id,
                    max_new_nodes |-> max_new_nodes, external_only |-> external_only,
                    fetch |-> fetch_result, fetched |-> TRUE,
                    result |-> Err(fetch_result.err)]
         /\ UNCHANGED <<edges, node_seq, now>>
    ELSE LET f == fetch_result.val
             updated == update_crawled(nodes, node_id, f.title, f.favicon, f.is_alive, now)
             st0 == [nodes |-> updated, edges |-> edges, seq |-> node_seq,
                     existing_urls |-> select_urls(updated),
                     nodes_added |-> 0, edges_added |-> 0, new_node_ids |-> <<>>,
                     stopped |-> FALSE]
             st == discover_loop(st0, f.links, 1, node_id, nodes[node_id],
                                 max_new_nodes, external_only, offset, now)
         IN /\ nodes' = st.nodes
            /\ edges' = st.edges
            /\ node_seq' = st.seq
            /\ ret' = [op |-> "discover_links_from_node", node_id |-> node_id,
                       max_new_nodes |-> max_new_nodes, external_only |-> external_only,
                       fetch |-> fetch_result, fetched |-> TRUE,
                       result |-> Ok([source_node_id |-> node_id,
                                      links_found |-> links_found(f.links, st),
                                      nodes_added |-> st.nodes_added,
                                      edges_added |-> st.edges_added,
                                      new_node_ids |-> st.new_node_ids])]
            /\ UNCHANGED now

\* -------------------------------------------------------------- SessionMerger
\* HashMap::insert
map_insert(m, k, v) == [x \in DOMAIN m \cup {k} |-> IF x = k THEN v ELSE m[x]]

SessionNode(id, url, title, favicon, screenshot, pos, is_alive, last_crawled) ==
    [id |-> id, url |-> url, title |-> title, favicon |-> favicon,
     screenshot |-> screenshot, position |-> pos, is_alive |-> is_alive,
     last_crawled |-> last_crawled]

\* The session files a merge can be pointed at: rows in rowid order.  "A" and
\* "B" are saved graphs (url is UNIQUE case-sensitively in each); "B" holds two
\* URLs that differ in case only and an edge from an id it has no node for
\* (an id that "A" does have).
SessionPaths == {"A", "B", "bad"}

session_nodes(path) ==
    CASE path = "A" -> << SessionNode(1, Url("a", "x"), "t0", None, None, 0, 1, None),
                          SessionNode(2, Url("b", "x"), "t1", Some("f1"), Some("s1"), 5, 0, Some(0)) >>
      [] path = "B" -> << SessionNode(1, Url("a", "X"), "t1", None, None, 5, 1, Some(0)),
                          SessionNode(3, Url("a", "x"), "t0", Some("f1"), None, 0, 1, None) >>
      [] path = "N" -> << SessionNode(1, Url("b", "x"), "t1", None, None, 5, 1, None) >>
      [] path = "U" -> << SessionNode(1, Url("b", "x"), NullText, None, None, 5, 1, None) >>
      [] OTHER -> << >>

session_edges(path) ==
    CASE path = "A" -> << <<1, 2>> >>
      [] path = "B" -> << <<1, 3>>, <<3, 1>>, <<2, 1>> >>
      [] OTHER -> << >>

\* Files that are not saved graphs: "N" is a database with a nodes table and
\* no edges table, "E" a path at which Connection::open creates an empty
\* database; "bad" lies in a directory that does not exist.
DamagedPaths == {"N", "E"}

\* "U" is a saved graph whose one node has no title
UntitledPaths == {"U"}

\* Connection::open(&session_path) is Ok
connection_opens(path) == path \in {"A", "B", "N", "E", "U"}

\* session_conn.prepare("SELECT id, url, ... FROM nodes") is Ok
nodes_prepared(path) == path \in {"A", "B", "N", "U"}

\* session_conn.prepare("SELECT source_id, target_id FROM edges") is Ok
edges_prepared(path) == path \in {"A", "B", "U"}

\* Connection::open and the prepare of the nodes query both succeed
session_opens(path) == connection_opens(path) /\ nodes_prepared(path)

\* a HashMap that is never filled from the active graph
existing_urls_empty(ns) == << >>

\* a HashMap keyed by the URLs as they are stored
existing_urls_cased(ns) == [u \in {ns[i].url : i \in DOMAIN ns} |-> unwrap(select_id(ns, u))]

\* the HashMap built from SELECT id, url FROM nodes: a later row replaces an
\* earlier one with the same lowercased URL
existing_urls_lower(ns) ==
    LET keys == {to_lowercase(ns[i].url) : i \in DOMAIN ns}
        ids(k) == {i \in DOMAIN ns : to_lowercase(ns[i].url) = k}
    IN [k \in keys |-> CHOOSE i \in ids(k) : \A j \in ids(k) : j <= i]

\* the HashMap is left as it was read from the active graph
forget_url(existing_urls, url_lower, new_id) == existing_urls

\* existing_urls.insert(url_lower, new_id)
remember_url(existing_urls, url_lower, new_id) == map_insert(existing_urls, url_lower, new_id)

\* a merged node that starts over as alive and never crawled
merged_node_fresh(n, t) ==
    VoidNode(n.url, n.title, n.favicon, n.screenshot, n.position, 1, None, t)

\* INSERT INTO nodes (url, title, favicon, screenshot, position_x, position_y,
\* position_z, is_alive, last_crawled, created_at) VALUES (..., datetime('now'))
merged_node(n, t) ==
    VoidNode(n.url, n.title, n.favicon, n.screenshot, n.position,
             n.is_alive, n.last_crawled, t)

\* one turn of `for node_result in nodes`
merge_node(m, n, t) ==
    LET url_lower == to_lowercase(n.url)
    IN IF url_lower \in DOMAIN m.existing_urls
       THEN [m EXCEPT !.id_map = map_insert(@, n.id, m.existing_urls[url_lower]),
                      !.result.nodes_skipped = @ + 1]
       ELSE IF url_unique_violation(m.nodes, n.url) THEN m
       ELSE LET new_id == m.seq + 1
                row == merged_node(n, t)
            IN [m EXCEPT !.nodes = insert_row(@, m.seq, row),
                         !.seq = new_id,
                         !.id_map = map_insert(@, n.id, new_id),
                         !.existing_urls = remember_url(@, url_lower, new_id),
                         !.result.nodes_merged = @ + 1]

\* one turn of `for edge_result in edges`
merge_edge(m, e) ==
    IF e[1] \in DOMAIN m.id_map /\ e[2] \in DOMAIN m.id_map
    THEN LET new_source == m.id_map[e[1]]
             new_target == m.id_map[e[2]]
         IN [m EXCEPT !.edges = insert_or_ignore_edge(@, new_source, new_target),
                      !.result.edges_merged =
                          @ + insert_or_ignore_edge_count(m.edges, new_source, new_target)]
    ELSE m

RECURSIVE merge_nodes(_, _, _, _)
merge_nodes(m, rows, i, t) ==
    IF i > Len(rows) THEN m ELSE merge_nodes(merge_node(m, rows[i], t), rows, i + 1, t)

RECURSIVE merge_edges(_, _, _)
merge_edges(m, rows, i) ==
    IF i > Len(rows) THEN m ELSE merge_edges(merge_edge(m, rows[i]), rows, i + 1)

\* the map goes on with the entries of the databases before
kept_id_map(id_map) == id_map

\* let mut id_map: HashMap<i64, i64> = HashMap::new();
new_id_map(id_map) == << >>

\* the end of one turn, by `continue` or by reaching the end of the body: the
\* counters and the id_map of the turn are noted for the response log
session_done(m) ==
    [m EXCEPT !.passes = Append(@, m.result), !.id_maps = Append(@, m.id_map)]

\* one turn of `for session_path in session_paths`
merge_session(m, path, t) ==
    IF ~connection_opens(path) THEN session_done([m EXCEPT !.id_map = << >>])
    ELSE IF ~nodes_prepared(path) THEN session_done([m EXCEPT !.id_map = << >>])
    ELSE LET m0 == [m EXCEPT !.id_map = new_id_map(@)]
             m1 == merge_nodes(m0, session_nodes(path), 1, t)
         IN IF ~edges_prepared(path) THEN session_done(m1)
            ELSE LET m2 == merge_edges(m1, session_edges(path), 1)
                 IN session_done([m2 EXCEPT !.result.sessions_merged = @ + 1])

RECURSIVE merge_loop(_, _, _, _)
merge_loop(m, paths, i, t) ==
    IF i > Len(paths) THEN m ELSE merge_loop(merge_session(m, paths[i], t), paths, i + 1, t)

\* merge_sessions on the tables ns, es: the tables, the MergeResult and, for
\* each path in turn, the counters as they stood when that session was done
\* and the id_map that session had built
merge_run(ns, es, seq, paths, t) ==
    merge_loop([nodes |-> ns, edges |-> es, seq |-> seq,
                existing_urls |-> existing_urls_lower(ns), id_map |-> << >>,
                result |-> [nodes_merged |-> 0, edges_merged |-> 0,
                            nodes_skipped |-> 0, sessions_merged |-> 0],
                passes |-> << >>, id_maps |-> << >>],
               paths, 1, t)

merge_sessions(session_paths) ==
    LET m == merge_run(nodes, edges, node_seq, session_paths, now)
    IN /\ nodes' = m.nodes
       /\ edges' = m.edges
       /\ node_seq' = m.seq
       /\ ret' = [op |-> "merge_sessions", session_paths |-> session_paths,
                  result |-> Ok(m.result), passes |-> m.passes, id_maps |-> m.id_maps]
       /\ UNCHANGED now

\* -------------------------------------------------------------- ImportAdapter
CrawlerNode(id, url, title, favicon, thumbnail, pos, is_alive) ==
    [id |-> id, url |-> url, title |-> title, favicon |-> favicon,
     thumbnail |-> thumbnail, position |-> pos, is_alive |-> is_alive]

\* The crawler databases an import can be pointed at: string ids, thumbnail
\* blobs, edges whose target may be NULL.
CrawlerPaths == {"K", "bad"}

crawler_nodes(path) ==
    CASE path = "K" -> << CrawlerNode("n1", Url("a", "x"), None, None, Some("png"), 0, 1),
                          CrawlerNode("n2", Url("a", "X"), Some("t1"), Some("f1"), None, 5, 0) >>
      [] OTHER -> << >>

crawler_edges(path) ==
    CASE path = "K" -> << <<"n1", Some("n2")>>, <<"n2", None>>, <<"n2", Some("n9")>> >>
      [] OTHER -> << >>

crawler_opens(path) == path = "K"

\* format!("data:image/png;base64,{}", STANDARD.encode(&data))
data_url(blob) == <<"data:image/png;base64", blob>>

\* the HashMap built from SELECT id, url FROM nodes, keyed by the URL as stored
existing_urls_exact(ns) == [u \in select_urls(ns) |-> unwrap(select_id(ns, u))]

\* a lookup that takes any key equal to the URL up to letter case
get_lowercase(existing_urls, url) ==
    LET keys == {k \in DOMAIN existing_urls : to_lowercase(k) = to_lowercase(url)}
    IN IF keys = {} THEN None ELSE Some(existing_urls[CHOOSE k \in keys : TRUE])

\* existing_urls.get(&url)
get_exact(existing_urls, url) ==
    IF url \in DOMAIN existing_urls THEN Some(existing_urls[url]) ELSE None

\* one turn of `for node_result in crawler_nodes`
import_node(m, n, t) ==
    IF get_exact(m.existing_urls, n.url) # None
    THEN [m EXCEPT !.id_map = map_insert(@, n.id, unwrap(get_exact(m.existing_urls, n.url))),
                   !.stats.nodes_skipped = @ + 1]
    ELSE IF url_unique_violation(m.nodes, n.url) THEN [m EXCEPT !.failed = TRUE]
    ELSE LET new_id == m.seq + 1
             screenshot == IF n.thumbnail = None THEN None
                           ELSE Some(data_url(unwrap(n.thumbnail)))
             title == IF n.title = None THEN "Untitled" ELSE unwrap(n.title)
             row == VoidNode(n.url, title, n.favicon, screenshot, n.position,
                             n.is_alive, Some(t), t)
         IN [m EXCEPT !.nodes = insert_row(@, m.seq, row),
                      !.seq = new_id,
                      !.id_map = map_insert(@, n.id, new_id),
                      !.existing_urls = map_insert(@, n.url, new_id),
                      !.stats.nodes_imported = @ + 1]

\* counted only if the statement added a row
edge_rows_added(es, s, t) == IF edge_unique_violation(es, s, t) THEN 0 ELSE 1

\* if result.is_ok() { stats.edges_imported += 1; }: INSERT OR IGNORE is Ok
\* whether or not the row was there
edge_insert_ok(es, s, t) == 1

\* one turn of `for edge_result in crawler_edges`
import_edge(m, e) ==
    IF e[1] \in DOMAIN m.id_map /\ e[2] \in DOMAIN m.id_map
    THEN [m EXCEPT !.edges = insert_or_ignore_edge(@, m.id_map[e[1]], m.id_map[e[2]]),
                   !.stats.edges_imported =
                       @ + edge_insert_ok(m.edges, m.id_map[e[1]], m.id_map[e[2]])]
    ELSE m

RECURSIVE import_nodes(_, _, _, _)
import_nodes(m, rows, i, t) ==
    IF i > Len(rows) \/ m.failed THEN m
    ELSE import_nodes(import_node(m, rows[i], t), rows, i + 1, t)

RECURSIVE import_edges(_, _, _)
import_edges(m, rows, i) ==
    IF i > Len(rows) THEN m ELSE import_edges(import_edge(m, rows[i]), rows, i + 1)

\* SELECT source_id, target_id FROM edges WHERE target_id IS NOT NULL
non_null_targets(rows) ==
    LET keep == SelectSeq(rows, LAMBDA e : e[2] # None)
    IN [i \in DOMAIN keep |-> <<keep[i][1], unwrap(keep[i][2])>>]

import_run(ns, es, seq, path, t) ==
    LET m0 == [nodes |-> ns, edges |-> es, seq |-> seq,
               existing_urls |-> existing_urls_exact(ns), id_map |-> << >>,
               stats |-> [nodes_imported |-> 0, edges_imported |-> 0, nodes_skipped |-> 0],
               failed |-> FALSE]
        m1 == import_nodes(m0, crawler_nodes(path), 1, t)
    IN IF m1.failed THEN m1 ELSE import_edges(m1, non_null_targets(crawler_edges(path)), 1)

import_crawler_db(crawler_db_path) ==
    IF ~crawler_opens(crawler_db_path)
    THEN /\ ret' = [op |-> "import_crawler_db", crawler_db_path |-> crawler_db_path,
                    result |-> Err("Failed to open crawler DB")]
         /\ UNCHANGED <<nodes, edges, node_seq, now>>
    ELSE LET m == import_run(nodes, edges, node_seq, crawler_db_path, now)
         IN /\ nodes' = m.nodes
            /\ edges' = m.edges
            /\ node_seq' = m.seq
            /\ ret' = [op |-> "import_crawler_db", crawler_db_path |-> crawler_db_path,
                       result |-> IF m.failed THEN Err("UNIQUE constraint failed")
                                  ELSE Ok(m.stats),
                       id_map |-> m.id_map]
            /\ UNCHANGED now

\* ------------------------------------------------------------ specifications
\* Commands are invoked one at a time: the caller takes the response of one
\* (Return) before it invokes the next; no discovery call is in flight beside
\* them except under SpecRace.  A specification runs the commands its
\* claims are about, on the argument sets it names; Capped bounds the rowids
\* the nodes table hands out.
Capped(max_id) == node_seq' <= max_id

Return ==
    /\ ret # Idle
    /\ ret' = Idle
    /\ UNCHANGED <<nodes, edges, node_seq, now, calls, driver>>

AddNode(urls, max_id) ==
    /\ ret = Idle
    /\ UNCHANGED <<calls, driver>>
    /\ \E u \in urls, t \in Titles : add_node_url(u, t) /\ Capped(max_id)

AddNodeAt(urls, positions, max_id) ==
    /\ ret = Idle
    /\ UNCHANGED <<calls, driver>>
    /\ \E u \in urls, t \in Titles, x \in positions :
          add_node_with_position(u, t, x) /\ Capped(max_id)

AddEdge(ids, fks) ==
    /\ ret = Idle
    /\ UNCHANGED <<calls, driver>>
    /\ \E s, t \in ids, fk \in fks : add_edge(s, t, fk)

DeleteNode(ids) ==
    /\ ret = Idle
    /\ UNCHANGED <<calls, driver>>
    /\ \E i \in ids : delete_node(i)

NextTarget ==
    /\ ret = Idle
    /\ UNCHANGED <<calls, driver>>
    /\ \E d \in StaleDays : get_next_crawl_target(d)

Crawl(ids) ==
    /\ ret = Idle
    /\ UNCHANGED <<calls, driver>>
    /\ \E i \in ids, r \in fetch_page_metadata : crawl_single_node(i, r)

Reset ==
    /\ ret = Idle
    /\ UNCHANGED <<calls, driver>>
    /\ reset_all_crawl_timestamps

Status ==
    /\ ret = Idle
    /\ UNCHANGED <<calls, driver>>
    /\ \E d \in StaleDays : get_auto_crawl_status(d)

Discover(ids, caps, filters, results, max_id) ==
    /\ ret = Idle
    /\ UNCHANGED <<calls, driver>>
    /\ \E i \in ids, n \in caps, x \in filters, r \in results, o \in NearbyOffsets :
          discover_links_from_node(i, n, x, r, o) /\ Capped(max_id)

Merge(lists, max_id) ==
    /\ ret = Idle
    /\ UNCHANGED <<calls, driver>>
    /\ \E p \in lists : merge_sessions(p) /\ Capped(max_id)

Import(max_id) ==
    /\ ret = Idle
    /\ UNCHANGED <<calls, driver>>
    /\ \E p \in CrawlerPaths : import_crawler_db(p) /\ Capped(max_id)

Clock ==
    /\ ret = Idle
    /\ UNCHANGED <<calls, driver>>
    /\ now < MaxTime
    /\ Tick

\* the session_paths lists of a merge: any paths, one of them twice or not
PathLists == SeqsUpTo(SessionPaths, MaxPaths)

\* merges of one session file at a time
OnePath == {<<p>> : p \in SessionPaths}

\* pages without a <title>
Untitled == {r \in fetch_page_metadata_with_links : r.ok => r.val.title = None}

\* GraphStore alone
NextStore ==
    \/ AddNode(Urls, StoreMaxId)
    \/ AddNodeAt(Urls, GivenPositions, StoreMaxId)
    \/ AddEdge(1..StoreMaxId, BOOLEAN)
    \/ DeleteNode(1..StoreMaxId)
    \/ Return

SpecStore == Init /\ [][NextStore]_vars

\* DiscoveryEngine on a graph built from the seeds by add_node_url, add_edge
\* and discovery itself; the pages link to any of Urls
NextDiscover ==
    \/ AddNode(Seeds, UrlCount)
    \/ AddEdge(1..MaxSourceId, BOOLEAN)
    \/ Discover(1..MaxSourceId, 0..MaxNewNodes, BOOLEAN, Untitled, UrlCount)
    \/ Return

SpecDiscover == Init /\ [][NextDiscover]_vars

\* pages without links
NoLinks == {r \in fetch_page_metadata_with_links : r.ok => r.val.links = <<>>}

\* CrawlScheduler and SingleNodeCrawler on the seeds; discovery, the other
\* crawl, runs here with max_new_nodes = 0 and only refreshes its source
NextCrawl ==
    \/ AddNode(Seeds, UrlCount)
    \/ NextTarget
    \/ Crawl(1..CrawlMaxId)
    \/ Reset
    \/ Discover(1..CrawlMaxId, {0}, BOOLEAN, NoLinks, UrlCount)
    \/ Clock
    \/ Return

SpecCrawl == Init /\ [][NextCrawl]_vars

\* SessionMerger and ImportAdapter on a graph built by add_node_url
NextMerge ==
    \/ AddNode(Urls, MergeMaxId)
    \/ DeleteNode(1..MergeMaxId)
    \/ Merge(PathLists, MergeMaxId)
    \/ Import(MergeMaxId)
    \/ Return

SpecMerge == Init /\ [][NextMerge]_vars

\* pages that answered with a success status and no <title>
UntitledPages == {r \in Untitled : r.ok /\ r.val.is_alive}

\* every command that creates nodes; add_node_with_position is given the
\* position add_node_url would have drawn
NextCreate ==
    \/ AddNode(Urls, CreateMaxId)
    \/ AddNodeAt(Urls, RandomPositions, CreateMaxId)
    \/ Discover(1..MaxSourceId, {MaxNewNodes}, {FALSE}, UntitledPages, CreateMaxId)
    \/ Merge(OnePath, CreateMaxId)
    \/ Import(CreateMaxId)
    \/ Return

SpecCreate == Init /\ [][NextCreate]_vars

\* link extraction on its own: a document with up to MaxHrefs anchors is
\* fetched and its link list computed
Documents == SeqsUpTo(Hrefs, MaxHrefs)

InitLinks ==
    /\ nodes = << >>
    /\ edges = EmptyBag
    /\ node_seq = 0
    /\ now = 0
    /\ \E hrefs \in Documents, base_url \in BaseUrls :
           ret = [op |-> "document", hrefs |-> hrefs, base_url |-> base_url]
    /\ calls = << >>
    /\ driver = Off

ExtractLinks ==
    /\ ret.op = "document"
    /\ ret' = [op |-> "links", hrefs |-> ret.hrefs, base_url |-> ret.base_url,
               links |-> extract_links(ret.hrefs, ret.base_url)]
    /\ UNCHANGED <<nodes, edges, node_seq, now, calls, driver>>

NextLinks == ExtractLinks

SpecLinks == InitLinks /\ [][NextLinks]_vars

\* SessionMerger pointed at saved graphs, damaged files and unopenable paths
AnyPathLists == SeqsUpTo(SessionPaths \cup DamagedPaths, MaxPaths)

NextSessions ==
    \/ AddNode(Seeds, MergeMaxId)
    \/ Merge(AnyPathLists, MergeMaxId)
    \/ Return

SpecSessions == Init /\ [][NextSessions]_vars

\* CrawlScheduler and its status query on a graph of added, merged and crawled
\* nodes; the merged session is the one with the untitled node
UntitledLists == {<<p>> : p \in UntitledPaths}

NextStatus ==
    \/ AddNode({Url("a", "x")}, UrlCount)
    \/ AddEdge({1}, BOOLEAN)
    \/ Merge(UntitledLists, UrlCount)
    \/ NextTarget
    \/ Status
    \/ Crawl(1..CrawlMaxId)
    \/ Reset
    \/ Clock
    \/ Return

SpecStatus == Init /\ [][NextStatus]_vars

\* Two callers invoke discover_links_from_node at the same time.  Each call
\* has its own connection and locals; SQLite runs one statement at a time,
\* so the calls interleave statement by statement.  A call is followed from
\* the statements up to the UPDATE of its source, to the SELECT that fills
\* existing_urls, through the turns of the loop, to its return.
Callers == {1, 2}

\* the graph after add_node_url(a/x) has returned
InitRace ==
    /\ nodes = insert_or_ignore_node(<< >>, 0, Url("a", "x"), "t0", 0, 0)
    /\ edges = EmptyBag
    /\ node_seq = 1
    /\ now = 0
    /\ ret = Idle
    /\ calls = << >>
    /\ driver = Off

DiscoverBegin(c, node_id, max_new_nodes, external_only, fetch_result, offset) ==
    /\ c \notin DOMAIN calls
    /\ node_id \in DOMAIN nodes
    /\ fetch_result.ok
    /\ nodes' = update_crawled(nodes, node_id, fetch_result.val.title,
                               fetch_result.val.favicon, fetch_result.val.is_alive, now)
    /\ calls' = map_insert(calls, c,
                    [pc |-> "select_urls", node_id |-> node_id, source |-> nodes[node_id],
                     max_new_nodes |-> max_new_nodes, external_only |-> external_only,
                     offset |-> offset, links |-> fetch_result.val.links, i |-> 1,
                     existing_urls |-> {}, nodes_added |-> 0, edges_added |-> 0,
                     new_node_ids |-> <<>>, stopped |-> FALSE])
    /\ UNCHANGED <<edges, node_seq, now, ret, driver>>

\* SELECT url FROM nodes, once per call
DiscoverSelectUrls(c) ==
    /\ c \in DOMAIN calls
    /\ calls[c].pc = "select_urls"
    /\ calls' = [calls EXCEPT ![c].pc = "loop", ![c].existing_urls = select_urls(nodes)]
    /\ UNCHANGED <<nodes, edges, node_seq, now, ret, driver>>

\* one turn of the loop, on the tables as they are now and the call's locals
DiscoverLink(c) ==
    /\ c \in DOMAIN calls
    /\ calls[c].pc = "loop"
    /\ calls[c].i <= Len(calls[c].links)
    /\ ~calls[c].stopped
    /\ LET l == calls[c]
           st == discover_link([nodes |-> nodes, edges |-> edges, seq |-> node_seq,
                                existing_urls |-> l.existing_urls,
                                nodes_added |-> l.nodes_added,
                                edges_added |-> l.edges_added,
                                new_node_ids |-> l.new_node_ids, stopped |-> FALSE],
                               l.links[l.i], l.node_id, l.source, l.max_new_nodes,
                               l.external_only, l.offset, now)
       IN /\ nodes' = st.nodes
          /\ edges' = st.edges
          /\ node_seq' = st.seq
          /\ calls' = [calls EXCEPT ![c].i = @ + 1,
                                    ![c].existing_urls = st.existing_urls,
                                    ![c].nodes_added = st.nodes_added,
                                    ![c].edges_added = st.edges_added,
                                    ![c].new_node_ids = st.new_node_ids,
                                    ![c].stopped = st.stopped]
    /\ UNCHANGED <<now, ret, driver>>

\* Ok(DiscoveryResult { ... })
DiscoverReturn(c) ==
    /\ c \in DOMAIN calls
    /\ calls[c].pc = "loop"
    /\ calls[c].i > Len(calls[c].links) \/ calls[c].stopped
    /\ calls' = [calls EXCEPT ![c].pc = "returned"]
    /\ UNCHANGED <<nodes, edges, node_seq, now, ret, driver>>

NextRace ==
    \/ \E c \in Callers, i \in 1..MaxSourceId, r \in UntitledPages, o \in NearbyOffsets :
          DiscoverBegin(c, i, MaxNewNodes, FALSE, r, o)
    \/ \E c \in Callers : DiscoverSelectUrls(c)
    \/ \E c \in Callers : DiscoverLink(c)
    \/ \E c \in Callers : DiscoverReturn(c)

SpecRace == InitRace /\ [][NextRace]_vars

\* two interleaved calls on the graph after add_node_url(a/x) and
\* add_node_url(b/x), each from either node
InitSources ==
    /\ nodes = insert_or_ignore_node(
                   insert_or_ignore_node(<< >>, 0, Url("a", "x"), "t0", 0, 0),
                   1, Url("b", "x"), "t0", 0, 0)
    /\ edges = EmptyBag
    /\ node_seq = Cardinality(Seeds)
    /\ now = 0
    /\ ret = Idle
    /\ calls = << >>
    /\ driver = Off

NextSources ==
    \/ \E c \in Callers, i \in 1..Cardinality(Seeds), r \in UntitledPages, o \in NearbyOffsets :
          DiscoverBegin(c, i, MaxNewNodes, FALSE, r, o)
    \/ \E c \in Callers : DiscoverSelectUrls(c)
    \/ \E c \in Callers : DiscoverLink(c)
    \/ \E c \in Callers : DiscoverReturn(c)

SpecSources == InitSources /\ [][NextSources]_vars

\* The auto-crawl loop of a caller: get_next_crawl_target(stale_days), then
\* crawl_single_node on the node it returned, again and again with the same
\* stale_days, until get_next_crawl_target returns None.  While the loop runs
\* nothing else is called, and the clock moves by less than stale_days.
DriveDays == 1..MaxDriveDays

DriverStart ==
    /\ ret = Idle
    /\ driver = Off
    /\ \E d \in DriveDays :
           driver' = [pc |-> "target", stale_days |-> d, start |-> now, crawled |-> << >>]
    /\ UNCHANGED <<nodes, edges, node_seq, now, ret, calls>>

DriverTarget ==
    /\ driver.pc = "target"
    /\ get_next_crawl_target(driver.stale_days)
    /\ driver' = [driver EXCEPT !.pc = IF ret'.node = None THEN "done" ELSE "crawl"]
    /\ UNCHANGED calls

DriverCrawl ==
    /\ driver.pc = "crawl"
    /\ \E r \in fetch_page_metadata : crawl_single_node(unwrap(ret.node), r)
    /\ driver' = [driver EXCEPT !.pc = "target", !.crawled = Append(@, unwrap(ret.node))]
    /\ UNCHANGED calls

DriverClock ==
    /\ driver.pc \in {"target", "crawl"}
    /\ now < MaxTime
    /\ (now + 1) - driver.start < driver.stale_days
    /\ Tick
    /\ UNCHANGED <<calls, driver>>

\* before the loop starts the graph is built by add_node_url, crawls and the
\* merge of a session whose node has no title, as time passes
NextDriver ==
    \/ driver = Off /\ AddNode(Seeds, UrlCount)
    \/ driver = Off /\ Merge(UntitledLists, UrlCount)
    \/ driver = Off /\ Crawl(1..CrawlMaxId)
    \/ driver = Off /\ Clock
    \/ driver = Off /\ Return
    \/ DriverStart
    \/ DriverTarget
    \/ DriverCrawl
    \/ DriverClock

SpecDriver == Init /\ [][NextDriver]_vars

\* the caller keeps the loop going: a call that is due is made
SpecDriverFair == SpecDriver /\ WF_vars(DriverTarget) /\ WF_vars(DriverCrawl)

\* discovery from node 1 on a graph whose edges were added by hand, also to
\* ids that no node has yet
NextDangling ==
    \/ AddNode({Url("a", "x")}, UrlCount)
    \/ AddEdge(1..StoreMaxId, BOOLEAN)
    \/ Discover({1}, 0..MaxNewNodes, BOOLEAN, Untitled, UrlCount)
    \/ Return

SpecDangling == Init /\ [][NextDangling]_vars

\* ------------------------------------------------------------------ claims
NodeCount(ns) == Cardinality(DOMAIN ns)

EdgesOf(es, id) == {e \in DOMAIN es : e[1] = id \/ e[2] = id}

\* C1: no two nodes of the active graph share a URL, compared case-sensitively,
\* after any sequence of add_node_url, add_node_with_position, discovery, merge
\* and import; a create for a URL that is already present adds no node row.
C1_UrlsUnique ==
    \A i, j \in DOMAIN nodes : nodes[i].url = nodes[j].url => i = j

C1_CreateOfPresentUrl ==
    (ret = Idle /\ ret'.op = "add_node" /\ ret'.url \in select_urls(nodes))
        => nodes' = nodes

C1_UniqueUrl == [](C1_UrlsUnique) /\ [][C1_CreateOfPresentUrl]_vars

\* a create was asked for a URL that one of the graph's two nodes already had
C1_Witness ==
    /\ ret.op = "add_node"
    /\ ret.id = 0
    /\ ret.url \in select_urls(nodes)
    /\ NodeCount(nodes) = 2

\* C2: inserting an edge (source, target) that already exists leaves exactly one
\* row for that pair, and a link whose edge from the source already exists adds
\* nothing to the edgesAdded of discover_links_from_node.
C2_OneRowPerPair == \A e \in DOMAIN edges : edges[e] = 1

\* the links of the fetched page whose node and edge from the source are there
C2_LinkedAlready(src, links) ==
    {k \in DOMAIN links :
        /\ select_id(nodes, links[k]) # None
        /\ BagIn(<<src, unwrap(select_id(nodes, links[k]))>>, edges)}

C2_SecondInsert ==
    /\ (ret = Idle /\ ret'.op = "add_edge"
            /\ BagIn(<<ret'.source_id, ret'.target_id>>, edges))
          => edges' = edges
    /\ (ret = Idle /\ ret'.op = "discover_links_from_node" /\ ret'.result.ok)
          => LET links == ret'.fetch.val.links
                 old == C2_LinkedAlready(ret'.node_id, links)
             IN /\ ret'.result.val.edges_added <= Len(links) - Cardinality(old)
                /\ BagCardinality(edges') - BagCardinality(edges)
                      <= Len(links) - Cardinality(old)

C2_EdgeOnce == [](C2_OneRowPerPair) /\ [][C2_SecondInsert]_vars

\* discovery met one link, to a node the source was already linked to
C2_Witness ==
    /\ ret.op = "discover_links_from_node"
    /\ ret.result.ok
    /\ ret.max_new_nodes > 0
    /\ Len(ret.fetch.val.links) = 1
    /\ ret.result.val.edges_added = 0
    /\ select_id(nodes, ret.fetch.val.links[1]) # None
    /\ BagIn(<<ret.node_id, unwrap(select_id(nodes, ret.fetch.val.links[1]))>>, edges)

\* C3: after delete_node(id) returns, the graph holds no node with that id and
\* no edge whose source or target is that id; delete_node on an id that no
\* node ever had returns success and leaves the graph unchanged.
C3_DeleteStep ==
    (ret = Idle /\ ret'.op = "delete_node")
        => /\ ret'.ok
           /\ ret'.id \notin DOMAIN nodes'
           /\ EdgesOf(edges', ret'.id) = {}
           /\ ret'.id > node_seq => (nodes' = nodes /\ edges' = edges)

C3_DeleteNode == [][C3_DeleteStep]_vars

\* C4: for max_new_nodes = N, discover_links_from_node returns nodesAdded <= N
\* and the number of node rows grows by at most N during the call.
C4_DiscoverStep ==
    (ret = Idle /\ ret'.op = "discover_links_from_node")
        => /\ NodeCount(nodes') - NodeCount(nodes) <= ret'.max_new_nodes
           /\ ret'.result.ok => ret'.result.val.nodes_added <= ret'.max_new_nodes

C4_NodesAddedCapped == [][C4_DiscoverStep]_vars

\* the cap stopped the loop: the page had two links, the first became a node,
\* the second did not
C4_Witness ==
    /\ ret.op = "discover_links_from_node"
    /\ ret.result.ok
    /\ ~ret.external_only
    /\ ret.max_new_nodes = 1
    /\ ret.result.val.nodes_added = 1
    /\ Len(ret.fetch.val.links) = 2
    /\ select_id(nodes, ret.fetch.val.links[2]) = None

\* C5: when the fetch fails at the transport level, discover_links_from_node
\* returns an error, creates no node and no edge, and changes nothing but the
\* source node: is_alive = false and last_crawled = now.
C5_TransportStep ==
    (ret = Idle /\ ret'.op = "discover_links_from_node"
        /\ ret'.node_id \in DOMAIN nodes /\ ~ret'.fetch.ok)
        => LET id == ret'.node_id
           IN /\ ret'.result = Err(ret'.fetch.err)
              /\ edges' = edges
              /\ node_seq' = node_seq
              /\ DOMAIN nodes' = DOMAIN nodes
              /\ \A j \in DOMAIN nodes \ {id} : nodes'[j] = nodes[j]
              /\ nodes'[id] = [nodes[id] EXCEPT !.is_alive = 0, !.last_crawled = Some(now)]

C5_DiscoverTransportFailure == [][C5_TransportStep]_vars

\* discovery from a linked node failed at the transport level
C5_Witness ==
    /\ ret.op = "discover_links_from_node"
    /\ ret.fetch = TransportError
    /\ ret.max_new_nodes > 0
    /\ ret.node_id \in DOMAIN nodes
    /\ ret.result = Err("transport")
    /\ nodes[ret.node_id].is_alive = 0
    /\ nodes[ret.node_id].last_crawled = Some(now)
    /\ EdgesOf(edges, ret.node_id) # {}

\* C6: merging the same source database a second time, by a second call or by
\* a path repeated in one call, gives nodesMerged = 0 and nodesSkipped = the
\* source's full node count for that pass, and adds no node.
C6_RepeatedPath ==
    ret.op = "merge_sessions" =>
        \A k, l \in DOMAIN ret.session_paths :
            (k < l /\ ret.session_paths[k] = ret.session_paths[l]
                   /\ session_opens(ret.session_paths[l]))
                => /\ ret.passes[l].nodes_merged = ret.passes[l - 1].nodes_merged
                   /\ ret.passes[l].nodes_skipped - ret.passes[l - 1].nodes_skipped
                         = Len(session_nodes(ret.session_paths[l]))

C6_SecondCall ==
    ret.op = "merge_sessions" =>
        \A k \in DOMAIN ret.session_paths :
            session_opens(ret.session_paths[k])
                => LET path == ret.session_paths[k]
                       again == merge_run(nodes, edges, node_seq, <<path>>, now)
                   IN /\ again.result.nodes_merged = 0
                      /\ again.result.nodes_skipped = Len(session_nodes(path))
                      /\ again.nodes = nodes

C6_MergeTwice == C6_RepeatedPath /\ C6_SecondCall

\* one call merged session "A" twice; the first pass added its nodes
C6_Witness ==
    /\ ret.op = "merge_sessions"
    /\ ret.session_paths = <<"A", "A">>
    /\ ret.passes[1].nodes_merged = 2
    /\ ret.result.val.nodes_merged = 2
    /\ ret.result.val.nodes_skipped = 2

\* C7: after crawl_single_node(id) returns for an existing node, whether the
\* page was alive, dead, or the fetch failed, the node's last_crawled is
\* non-null, and it stays non-null under any later crawl or discovery until
\* reset_all_crawl_timestamps is called.
C7_Stamped ==
    (ret.op = "crawl_single_node" /\ ret.result.ok)
        => nodes[ret.node_id].last_crawled # None

C7_StaysStamped ==
    \A i \in DOMAIN nodes :
        (nodes[i].last_crawled # None /\ ret'.op # "reset_all_crawl_timestamps")
            => (i \in DOMAIN nodes' /\ nodes'[i].last_crawled # None)

C7_LastCrawledSet == [](C7_Stamped) /\ [][C7_StaysStamped]_vars

\* a crawl whose fetch failed stamped its node, and a node crawled on an
\* earlier day is still stamped
C7_Witness ==
    /\ ret.op = "crawl_single_node"
    /\ ~ret.fetch.ok
    /\ ret.result.ok
    /\ nodes[ret.node_id].last_crawled = Some(now)
    /\ \E j \in DOMAIN nodes :
          nodes[j].last_crawled # None /\ unwrap(nodes[j].last_crawled) < now

\* C8: get_next_crawl_target never returns a node whose last_crawled is set
\* while some node has never been crawled; among crawled nodes it returns one
\* with the oldest last_crawled; it returns none when no node is never-crawled
\* or older than the staleness window.
C8_NeverCrawled == {i \in DOMAIN nodes : nodes[i].last_crawled = None}

C8_Stale(stale_days) ==
    {i \in DOMAIN nodes :
        /\ nodes[i].last_crawled # None
        /\ unwrap(nodes[i].last_crawled) < now - stale_days}

C8_NextTarget ==
    ret.op = "get_next_crawl_target" =>
        LET stale == C8_Stale(ret.stale_days)
        IN /\ (C8_NeverCrawled \cup stale = {}) => ret.node = None
           /\ ret.node # None =>
                 LET id == unwrap(ret.node)
                 IN /\ id \in C8_NeverCrawled \cup stale
                    /\ C8_NeverCrawled # {} => id \in C8_NeverCrawled
                    /\ id \in stale =>
                          \A j \in stale : unwrap(nodes[id].last_crawled)
                                              <= unwrap(nodes[j].last_crawled)

\* one node is stale, another was never crawled, and the query answered
C8_Witness ==
    /\ ret.op = "get_next_crawl_target"
    /\ ret.node # None
    /\ C8_NeverCrawled # {}
    /\ C8_Stale(ret.stale_days) # {}

\* C9: when the page answers with a non-success HTTP status, crawl_single_node
\* returns Ok with isAlive = false, title = null and error = null, leaves the
\* stored title and favicon as they were and sets is_alive to false.
C9_NonSuccessStep ==
    (ret = Idle /\ ret'.op = "crawl_single_node"
        /\ ret'.node_id \in DOMAIN nodes /\ ret'.fetch = NonSuccessStatus)
        => LET id == ret'.node_id
           IN /\ ret'.result.ok
              /\ ~ret'.result.val.is_alive
              /\ ret'.result.val.title = None
              /\ ret'.result.val.error = None
              /\ nodes'[id].title = nodes[id].title
              /\ nodes'[id].favicon = nodes[id].favicon
              /\ nodes'[id].is_alive = 0

C9_NonSuccessStatus == [][C9_NonSuccessStep]_vars

\* a node that an earlier crawl gave a title and a favicon answered with a
\* non-success status
C9_Witness ==
    /\ ret.op = "crawl_single_node"
    /\ ret.fetch = NonSuccessStatus
    /\ ret.result.ok
    /\ nodes[ret.node_id].title = "t1"
    /\ nodes[ret.node_id].favicon = Some("f1")
    /\ nodes[ret.node_id].is_alive = 0

\* C10: when the fetch fails at the transport level, crawl_single_node returns
\* Ok with the error message in the result and isAlive = false, and the node
\* is stored as not alive; the command returns Err only when the node id does
\* not resolve.
C10_TransportFailure ==
    ret.op = "crawl_single_node" =>
        /\ ~ret.result.ok <=> ret.node_id \notin DOMAIN nodes
        /\ (ret.node_id \in DOMAIN nodes /\ ~ret.fetch.ok)
              => /\ ret.result.ok
                 /\ ret.result.val.error = Some(ret.fetch.err)
                 /\ ~ret.result.val.is_alive
                 /\ nodes[ret.node_id].is_alive = 0

\* a node that had been crawled alive failed at the transport level
C10_Witness ==
    /\ ret.op = "crawl_single_node"
    /\ ret.fetch = TransportError
    /\ ret.result.ok
    /\ ret.result.val.error = Some("transport")
    /\ nodes[ret.node_id].title = "t1"
    /\ nodes[ret.node_id].is_alive = 0

\* C11: a crawl (crawl_single_node, and the refresh discover_links_from_node
\* gives its source) replaces the stored title, respectively favicon, only when
\* the fetch produced a value for it; when the fetch produced none, the stored
\* title, respectively favicon, is retained.
C11_RefreshStep ==
    (ret = Idle /\ ret'.op \in {"crawl_single_node", "discover_links_from_node"}
        /\ ret'.node_id \in DOMAIN nodes)
        => LET id == ret'.node_id
               f == ret'.fetch
           IN IF f.ok
              THEN /\ nodes'[id].title =
                         IF f.val.title # None THEN unwrap(f.val.title) ELSE nodes[id].title
                   /\ nodes'[id].favicon =
                         IF f.val.favicon # None THEN f.val.favicon ELSE nodes[id].favicon
              ELSE /\ nodes'[id].title = nodes[id].title
                   /\ nodes'[id].favicon = nodes[id].favicon

C11_CoalesceUpdate == [][C11_RefreshStep]_vars

\* a page without a <title> was crawled and the title of an earlier crawl is
\* still stored
C11_Witness ==
    /\ ret.op = "crawl_single_node"
    /\ ret.fetch.ok
    /\ ret.fetch.val.is_alive
    /\ ret.fetch.val.title = None
    /\ ret.result.ok
    /\ nodes[ret.node_id].title = "t1"

\* C12: with externalOnly = true, discover_links_from_node never creates a node
\* whose URL host equals the source node's host: a not-yet-known link on the
\* source's host is skipped and adds to neither nodesAdded nor edgesAdded.
C12_SameHostNew(src, links) ==
    {k \in DOMAIN links :
        /\ links[k] \notin select_urls(nodes)
        /\ links[k].host = nodes[src].url.host}

C12_OtherHostNew(src, links) ==
    {k \in DOMAIN links :
        /\ links[k] \notin select_urls(nodes)
        /\ links[k].host # nodes[src].url.host}

C12_ExternalStep ==
    (ret = Idle /\ ret'.op = "discover_links_from_node" /\ ret'.result.ok
        /\ ret'.external_only)
        => LET src == ret'.node_id
               links == ret'.fetch.val.links
               skipped == C12_SameHostNew(src, links)
           IN /\ \A i \in DOMAIN nodes' \ DOMAIN nodes :
                    nodes'[i].url.host # nodes[src].url.host
              /\ \A k \in skipped : links[k] \notin select_urls(nodes')
              /\ ret'.result.val.nodes_added <= Cardinality(C12_OtherHostNew(src, links))
              /\ ret'.result.val.edges_added <= Len(links) - Cardinality(skipped)
              /\ BagCardinality(edges') - BagCardinality(edges)
                    <= Len(links) - Cardinality(skipped)

C12_ExternalOnly == [][C12_ExternalStep]_vars

\* the page linked to a new URL on the source's host and then to a new URL on
\* another host; the cap allowed both and only the second became a node
C12_Witness ==
    /\ ret.op = "discover_links_from_node"
    /\ ret.result.ok
    /\ ret.external_only
    /\ ret.max_new_nodes = 2
    /\ Len(ret.fetch.val.links) = 2
    /\ ret.fetch.val.links[1].host = nodes[ret.node_id].url.host
    /\ ret.fetch.val.links[1] \notin select_urls(nodes)
    /\ ret.fetch.val.links[2] \in select_urls(nodes)
    /\ ret.result.val.nodes_added = 1
    /\ ret.result.val.edges_added = 1

\* C13: the link list of a fetched page has no entry that comes from a
\* fragment-only, javascript: or mailto: href; every entry is an absolute http
\* or https URL, a root-relative href being resolved against the scheme and
\* host of the page; no entry occurs twice; the entries stand in the document
\* order of their first occurrences; and the hrefs "/about",
\* "https://other.com/x", "#frag", "mailto:a@b.com" on https://example.com give
\* exactly https://example.com/about, https://other.com/x.
C13_Excluded(href) == href.lead \in {"#", "javascript:", "mailto:"}

C13_Denotes(href, base_url) ==
    CASE href.lead = "https://" -> Link("https", href.host, href.path)
      [] href.lead = "http://" -> Link("http", href.host, href.path)
      [] href.lead = "//" -> Link("https", href.host, href.path)
      [] OTHER -> Link(base_url.scheme, base_url.host, href.path)

C13_Occurrences(hrefs, base_url, l) ==
    {k \in DOMAIN hrefs : ~C13_Excluded(hrefs[k]) /\ C13_Denotes(hrefs[k], base_url) = l}

C13_First(hrefs, base_url, l) ==
    CHOOSE k \in C13_Occurrences(hrefs, base_url, l) :
        \A m \in C13_Occurrences(hrefs, base_url, l) : k <= m

C13_ExampleHrefs ==
    <<Href("/", "", "about", FALSE, 0, FALSE),
      Href("https://", "other.com", "x", FALSE, 0, FALSE),
      Href("#", "", "frag", FALSE, 0, FALSE),
      Href("mailto:", "", "a@b.com", FALSE, 0, FALSE)>>

C13_ExampleLinks ==
    <<Link("https", "example.com", "about"), Link("https", "other.com", "x")>>

C13_LinkList ==
    ret.op = "links" =>
        LET hrefs == ret.hrefs
            base_url == ret.base_url
            links == ret.links
        IN /\ \A i \in DOMAIN links :
                  /\ links[i].scheme \in {"http", "https"}
                  /\ links[i].host # ""
                  /\ C13_Occurrences(hrefs, base_url, links[i]) # {}
           /\ \A k \in DOMAIN hrefs :
                  (hrefs[k].lead \in {"/", "http://", "https://"} /\ ~hrefs[k].long)
                      => contains(links, C13_Denotes(hrefs[k], base_url))
           /\ \A i, j \in DOMAIN links : links[i] = links[j] => i = j
           /\ \A i, j \in DOMAIN links :
                  i < j => C13_First(hrefs, base_url, links[i])
                               < C13_First(hrefs, base_url, links[j])
           /\ (hrefs = C13_ExampleHrefs /\ base_url.host = "example.com")
                  => links = C13_ExampleLinks

C13_Witness ==
    /\ ret.op = "links"
    /\ ret.hrefs = C13_ExampleHrefs
    /\ ret.base_url.host = "example.com"
    /\ Len(ret.links) = 2

\* C14: in discover_links_from_node a link whose URL is already in the graph
\* creates no node and is not counted in nodes_added, so it uses up none of
\* max_new_nodes; it adds 1 to edges_added exactly when the edge from the source
\* to the existing node was absent before the call and is present after it.
C14_ExistingLinks(links) == {k \in DOMAIN links : links[k] \in select_urls(nodes)}

C14_NewEdgesToExisting(src) ==
    {tid \in DOMAIN nodes : ~BagIn(<<src, tid>>, edges) /\ BagIn(<<src, tid>>, edges')}

C14_ExistingStep ==
    (ret = Idle /\ ret'.op = "discover_links_from_node" /\ ret'.result.ok)
        => LET links == ret'.fetch.val.links
               r == ret'.result.val
               created == DOMAIN nodes' \ DOMAIN nodes
           IN /\ \A k \in C14_ExistingLinks(links) :
                     /\ \A id \in created : nodes'[id].url # links[k]
                     /\ Cardinality({id \in DOMAIN nodes' : nodes'[id].url = links[k]}) = 1
              /\ r.nodes_added = Cardinality(created)
              /\ r.nodes_added <= Len(links) - Cardinality(C14_ExistingLinks(links))
              /\ r.edges_added - r.nodes_added
                     = Cardinality(C14_NewEdgesToExisting(ret'.node_id))
              /\ \A tid \in C14_NewEdgesToExisting(ret'.node_id) :
                     \E k \in C14_ExistingLinks(links) : nodes[tid].url = links[k]

C14_ExistingLink == [][C14_ExistingStep]_vars

\* with max_new_nodes = 1 a page with two links gave one node and two edges:
\* one link was in the graph already and got its edge without using the cap
C14_Witness ==
    /\ ret.op = "discover_links_from_node"
    /\ ret.result.ok
    /\ ret.max_new_nodes = 1
    /\ Len(ret.fetch.val.links) = 2
    /\ select_id(nodes, ret.fetch.val.links[1]) # None
    /\ \A i \in DOMAIN ret.result.val.new_node_ids :
           ret.result.val.new_node_ids[i] # unwrap(select_id(nodes, ret.fetch.val.links[1]))
    /\ ret.result.val.nodes_added = 1
    /\ ret.result.val.edges_added = 2

\* C15: links_found of a discover_links_from_node result is the number of links
\* the fetch returned, whatever max_new_nodes and external_only are and whichever
\* links are in the graph already; it can exceed nodes_added + edges_added.
C15_LinksFound ==
    (ret.op = "discover_links_from_node" /\ ret.result.ok)
        => ret.result.val.links_found = Len(ret.fetch.val.links)

\* two links were found, the cap of zero let none of them be used
C15_Witness ==
    /\ ret.op = "discover_links_from_node"
    /\ ret.result.ok
    /\ ret.max_new_nodes = 0
    /\ ret.external_only
    /\ ret.result.val.links_found = 2
    /\ \E k \in DOMAIN ret.fetch.val.links : select_id(nodes, ret.fetch.val.links[k]) # None
    /\ ret.result.val.links_found > ret.result.val.nodes_added + ret.result.val.edges_added

\* C16: within one merge_sessions call, a URL that an earlier database of the
\* call brought into the graph is known when a later database holds it too: the
\* later occurrence is counted in nodes_skipped, no second node is made for it,
\* and its old id is mapped to the node made from the earlier database.
C16_LowerUrls(ns) == {to_lowercase(ns[i].url) : i \in DOMAIN ns}

C16_Holders(ns, u) == {id \in DOMAIN ns : to_lowercase(ns[id].url) = u}

C16_CounterBefore(passes, l, counter) == IF l = 1 THEN 0 ELSE passes[l - 1][counter]

\* the rows of the l-th database whose URL was not in the graph before the call
\* and is held by an earlier database of the call
C16_LaterOccurrences(paths, l) ==
    {j \in DOMAIN session_nodes(paths[l]) :
        LET u == to_lowercase(session_nodes(paths[l])[j].url)
        IN /\ u \notin C16_LowerUrls(nodes)
           /\ \E k \in 1..(l - 1) :
                  /\ session_opens(paths[k])
                  /\ \E i \in DOMAIN session_nodes(paths[k]) :
                         to_lowercase(session_nodes(paths[k])[i].url) = u}

C16_SharedStep ==
    (ret = Idle /\ ret'.op = "merge_sessions")
        => \A l \in DOMAIN ret'.session_paths :
               session_opens(ret'.session_paths[l])
                   => LET paths == ret'.session_paths
                          later == C16_LaterOccurrences(paths, l)
                      IN /\ \A j \in later :
                                LET n == session_nodes(paths[l])[j]
                                    held == C16_Holders(nodes', to_lowercase(n.url))
                                IN /\ Cardinality(held) = 1
                                   /\ held \cap DOMAIN nodes = {}
                                   /\ n.id \in DOMAIN ret'.id_maps[l]
                                   /\ ret'.id_maps[l][n.id] \in held
                         /\ ret'.passes[l].nodes_skipped
                                - C16_CounterBefore(ret'.passes, l, "nodes_skipped")
                                >= Cardinality(later)
                         /\ ret'.passes[l].nodes_merged
                                - C16_CounterBefore(ret'.passes, l, "nodes_merged")
                                <= Len(session_nodes(paths[l])) - Cardinality(later)

C16_SharedAcrossDatabases == [][C16_SharedStep]_vars

\* "A" brought in a/x and b/x, then "B" found a/x known: its row 3 was skipped
\* and mapped to the node made from "A"
C16_Witness ==
    /\ ret.op = "merge_sessions"
    /\ ret.session_paths = <<"A", "B">>
    /\ ret.passes[1].nodes_merged = 2
    /\ ret.passes[2].nodes_merged = 2
    /\ ret.passes[2].nodes_skipped = 2
    /\ 3 \in DOMAIN ret.id_maps[2]
    /\ nodes[ret.id_maps[2][3]].url = Url("a", "x")

\* C17: merge_sessions compares URLs without regard to letter case: a source
\* node whose lowercased URL is the lowercased URL of a node that is in the
\* active graph when the call starts is not inserted and is counted in
\* nodes_skipped; the existing node keeps all its fields; the old id is mapped to
\* the existing node's id, so the source's edges attach to the existing node.
C17_Known(paths, l) ==
    {j \in DOMAIN session_nodes(paths[l]) :
        to_lowercase(session_nodes(paths[l])[j].url) \in C16_LowerUrls(nodes)}

C17_CaseStep ==
    (ret = Idle /\ ret'.op = "merge_sessions")
        => /\ \A id \in DOMAIN nodes : id \in DOMAIN nodes' /\ nodes'[id] = nodes[id]
           /\ \A l \in DOMAIN ret'.session_paths :
                  session_opens(ret'.session_paths[l])
                      => LET path == ret'.session_paths[l]
                             id_map == ret'.id_maps[l]
                             known == C17_Known(ret'.session_paths, l)
                         IN /\ \A j \in known :
                                   LET n == session_nodes(path)[j]
                                       u == to_lowercase(n.url)
                                   IN /\ C16_Holders(nodes', u) = C16_Holders(nodes, u)
                                      /\ n.id \in DOMAIN id_map
                                      /\ id_map[n.id] \in C16_Holders(nodes, u)
                            /\ ret'.passes[l].nodes_skipped
                                   - C16_CounterBefore(ret'.passes, l, "nodes_skipped")
                                   >= Cardinality(known)
                            /\ ret'.passes[l].nodes_merged
                                   - C16_CounterBefore(ret'.passes, l, "nodes_merged")
                                   <= Len(session_nodes(path)) - Cardinality(known)
                            /\ edges_prepared(path) =>
                                   \A k \in DOMAIN session_edges(path) :
                                       LET e == session_edges(path)[k]
                                       IN (e[1] \in DOMAIN id_map /\ e[2] \in DOMAIN id_map)
                                              => BagIn(<<id_map[e[1]], id_map[e[2]]>>, edges')

C17_CaseInsensitive == [][C17_CaseStep]_vars

\* the graph held a/x; "B" came with a/X as row 1 and a/x as row 3: both were
\* skipped and mapped to the one node, which got the edge between them
C17_Witness ==
    /\ ret.op = "merge_sessions"
    /\ ret.session_paths = <<"B">>
    /\ ret.result.val.nodes_merged = 0
    /\ ret.result.val.nodes_skipped = 2
    /\ NodeCount(nodes) = 1
    /\ 1 \in DOMAIN ret.id_maps[1]
    /\ nodes[ret.id_maps[1][1]].url = Url("a", "x")
    /\ nodes[ret.id_maps[1][1]].title = "t0"
    /\ BagIn(<<ret.id_maps[1][1], ret.id_maps[1][1]>>, edges)

\* C18: merge_sessions adds exactly one to sessions_merged for every source
\* database that was opened, whatever it contributed; a database that cannot be
\* opened changes no counter and nothing in the graph, and the other databases
\* of the call are processed as if it had not been listed.
C18_Counters(passes, l) ==
    IF l = 0
    THEN [nodes_merged |-> 0, edges_merged |-> 0, nodes_skipped |-> 0, sessions_merged |-> 0]
    ELSE passes[l]

C18_SessionStep ==
    (ret = Idle /\ ret'.op = "merge_sessions")
        => LET paths == ret'.session_paths
               passes == ret'.passes
               opened == SelectSeq(paths, connection_opens)
               rest == merge_run(nodes, edges, node_seq, opened, now)
           IN /\ \A l \in DOMAIN paths :
                     IF connection_opens(paths[l])
                     THEN C18_Counters(passes, l).sessions_merged
                              = C18_Counters(passes, l - 1).sessions_merged + 1
                     ELSE C18_Counters(passes, l) = C18_Counters(passes, l - 1)
              /\ ret'.result.val.sessions_merged = Len(opened)
              /\ nodes' = rest.nodes
              /\ edges' = rest.edges
              /\ ret'.result.val = rest.result

C18_SessionsMerged == [][C18_SessionStep]_vars

\* C19: merge_sessions maps each source edge through the id map of the edge's
\* own database only: an edge with an endpoint that has no mapping there is
\* dropped, without error and uncounted; any other edge is inserted between the
\* mapped ids unless that row exists, and edges_merged counts exactly the edge
\* rows that were added.
C19_OwnIds(path) == {session_nodes(path)[j].id : j \in DOMAIN session_nodes(path)}

C19_Mappable(path) ==
    {k \in DOMAIN session_edges(path) :
        session_edges(path)[k][1] \in C19_OwnIds(path)
            /\ session_edges(path)[k][2] \in C19_OwnIds(path)}

C19_EdgeStep ==
    (ret = Idle /\ ret'.op = "merge_sessions")
        => LET paths == ret'.session_paths
               merged == {l \in DOMAIN paths : session_opens(paths[l]) /\ edges_prepared(paths[l])}
               Mapped(l, k) == <<ret'.id_maps[l][session_edges(paths[l])[k][1]],
                                 ret'.id_maps[l][session_edges(paths[l])[k][2]]>>
           IN /\ ret'.result.ok
              /\ \A l \in merged :
                     /\ DOMAIN ret'.id_maps[l] = C19_OwnIds(paths[l])
                     /\ \A k \in C19_Mappable(paths[l]) : BagIn(Mapped(l, k), edges')
              /\ \A x \in DOMAIN edges' :
                     IF BagIn(x, edges)
                     THEN CopiesIn(x, edges') = CopiesIn(x, edges)
                     ELSE /\ CopiesIn(x, edges') = 1
                          /\ \E l \in merged : \E k \in C19_Mappable(paths[l]) : x = Mapped(l, k)
              /\ \A x \in DOMAIN edges : BagIn(x, edges')
              /\ ret'.result.val.edges_merged = BagCardinality(edges') - BagCardinality(edges)

C19_EdgeRemap == [][C19_EdgeStep]_vars

\* "A" gave the edge a/x -> b/x; of the three edges of "B" the first became the
\* loop on a/x, the second found that row, and the third, from id 2 that only
\* "A" has a node for, was dropped
C19_Witness ==
    /\ ret.op = "merge_sessions"
    /\ ret.session_paths = <<"A", "B">>
    /\ ret.passes[1].nodes_merged = 2
    /\ ret.passes[1].edges_merged = 1
    /\ ret.result.val.edges_merged = 2
    /\ BagCardinality(edges) = 2
    /\ 3 \in DOMAIN ret.id_maps[2]
    /\ BagIn(<<ret.id_maps[2][3], ret.id_maps[2][3]>>, edges)
    /\ 2 \notin DOMAIN ret.id_maps[2]

\* C20: import_crawler_db matches URLs exactly, letter case included: a foreign
\* node whose URL is exactly the URL of an existing node is counted in
\* nodes_skipped, its id is mapped to the existing node's id and no field of the
\* existing node changes; a foreign node whose URL differs from every existing
\* URL, be it only in letter case, becomes a new node counted in nodes_imported.
C20_Exact(rows) == {j \in DOMAIN rows : rows[j].url \in select_urls(nodes)}

C20_ImportStep ==
    (ret = Idle /\ ret'.op = "import_crawler_db" /\ ret'.result.ok)
        => LET rows == crawler_nodes(ret'.crawler_db_path)
               id_map == ret'.id_map
           IN /\ \A id \in DOMAIN nodes : id \in DOMAIN nodes' /\ nodes'[id] = nodes[id]
              /\ \A j \in DOMAIN rows :
                     /\ rows[j].id \in DOMAIN id_map
                     /\ id_map[rows[j].id] \in DOMAIN nodes'
                     /\ nodes'[id_map[rows[j].id]].url = rows[j].url
                     /\ (j \in C20_Exact(rows)) = (id_map[rows[j].id] \in DOMAIN nodes)
                     /\ Cardinality({id \in DOMAIN nodes' : nodes'[id].url = rows[j].url}) = 1
              /\ ret'.result.val.nodes_skipped = Cardinality(C20_Exact(rows))
              /\ ret'.result.val.nodes_imported = Len(rows) - Cardinality(C20_Exact(rows))
              /\ NodeCount(nodes') - NodeCount(nodes) = ret'.result.val.nodes_imported

C20_ExactMatch == [][C20_ImportStep]_vars

\* the graph held a/x with the title add_node_url gave it; of the crawler's two
\* rows a/x was skipped and a/X, the same URL but for case, became a node
C20_Witness ==
    /\ ret.op = "import_crawler_db"
    /\ ret.result.ok
    /\ ret.result.val.nodes_skipped = 1
    /\ ret.result.val.nodes_imported = 1
    /\ nodes[ret.id_map["n1"]].url = Url("a", "x")
    /\ nodes[ret.id_map["n1"]].title = "t0"
    /\ nodes[ret.id_map["n1"]].screenshot = None
    /\ nodes[ret.id_map["n2"]].url = Url("a", "X")
    /\ nodes[ret.id_map["n2"]].title = "t1"
    /\ ret.id_map["n1"] < ret.id_map["n2"]

\* C21: import_crawler_db counts in edges_imported every foreign edge with a
\* non-null target whose two endpoints are both in the id map, whether the edge
\* row was created or was there already; so importing the same database again
\* reports the same edges_imported and adds no edge row.
C21_CrawlerIds(path) == {crawler_nodes(path)[j].id : j \in DOMAIN crawler_nodes(path)}

C21_Resolved(path) ==
    {k \in DOMAIN crawler_edges(path) :
        /\ crawler_edges(path)[k][2] # None
        /\ crawler_edges(path)[k][1] \in C21_CrawlerIds(path)
        /\ unwrap(crawler_edges(path)[k][2]) \in C21_CrawlerIds(path)}

C21_ImportStep ==
    (ret = Idle /\ ret'.op = "import_crawler_db" /\ ret'.result.ok)
        => LET path == ret'.crawler_db_path
           IN /\ DOMAIN ret'.id_map = C21_CrawlerIds(path)
              /\ ret'.result.val.edges_imported = Cardinality(C21_Resolved(path))
              /\ \A k \in C21_Resolved(path) :
                     LET e == <<ret'.id_map[crawler_edges(path)[k][1]],
                                ret'.id_map[unwrap(crawler_edges(path)[k][2])]>>
                     IN CopiesIn(e, edges') = IF BagIn(e, edges) THEN CopiesIn(e, edges) ELSE 1
              /\ BagCardinality(edges') - BagCardinality(edges) <= Cardinality(C21_Resolved(path))

C21_ImportAgain ==
    (ret.op = "import_crawler_db" /\ ret.result.ok)
        => LET again == import_run(nodes, edges, node_seq, ret.crawler_db_path, now)
           IN /\ ~again.failed
              /\ again.stats.edges_imported = ret.result.val.edges_imported
              /\ again.edges = edges

C21_EdgesImported == [](C21_ImportAgain) /\ [][C21_ImportStep]_vars

\* both rows of "K" were found in the graph, a/x with the title an earlier
\* import gave it; the edge between them was there and was counted again
C21_Witness ==
    /\ ret.op = "import_crawler_db"
    /\ ret.result.ok
    /\ ret.result.val.nodes_imported = 0
    /\ ret.result.val.nodes_skipped = 2
    /\ nodes[ret.id_map["n1"]].title = "Untitled"
    /\ nodes[ret.id_map["n2"]].last_crawled # None
    /\ ret.result.val.edges_imported = 1
    /\ CopiesIn(<<ret.id_map["n1"], ret.id_map["n2"]>>, edges) = 1

\* C22: whatever the graph and stale_days, nodes_pending of
\* get_auto_crawl_status is the number of nodes that are candidates of
\* get_next_crawl_target under the same stale_days (never crawled, or crawled
\* before the staleness window); get_next_crawl_target returns none exactly
\* when that number is 0; last_crawled_id is none exactly when no node has a
\* last_crawled.
C22_Status ==
    /\ ret.op = "get_auto_crawl_status" =>
           /\ ret.nodes_pending = Cardinality(C8_NeverCrawled \cup C8_Stale(ret.stale_days))
           /\ (ret.last_crawled_id = None) = (\A i \in DOMAIN nodes : nodes[i].last_crawled = None)
           /\ ret.last_crawled_id # None =>
                  /\ unwrap(ret.last_crawled_id) \in DOMAIN nodes
                  /\ ret.last_crawled_url = Some(nodes[unwrap(ret.last_crawled_id)].url)
                  /\ \A j \in DOMAIN nodes :
                         nodes[j].last_crawled # None =>
                             unwrap(nodes[j].last_crawled)
                                 <= unwrap(nodes[unwrap(ret.last_crawled_id)].last_crawled)
    /\ ret.op = "get_next_crawl_target" =>
           (ret.node = None) = (nodes_pending(nodes, now, ret.stale_days) = 0)

\* C23: reset_all_crawl_timestamps sets last_crawled to NULL on every node,
\* changes no other field and no edge, and returns the number of nodes; right
\* afterwards every node is a crawl candidate for every stale_days and
\* get_auto_crawl_status has no last-crawled node to report.
C23_ResetStep ==
    (ret = Idle /\ ret'.op = "reset_all_crawl_timestamps")
        => /\ DOMAIN nodes' = DOMAIN nodes
           /\ \A i \in DOMAIN nodes : nodes'[i] = [nodes[i] EXCEPT !.last_crawled = None]
           /\ edges' = edges
           /\ node_seq' = node_seq
           /\ ret'.count = NodeCount(nodes)

C23_AfterReset ==
    ret.op = "reset_all_crawl_timestamps"
        => /\ \A i \in DOMAIN nodes : \A d \in StaleDays : is_candidate(nodes[i], now, d)
           /\ \A d \in StaleDays : nodes_pending(nodes, now, d) = NodeCount(nodes)
           /\ last_crawled_rows(nodes) = {}

C23_Reset == [](C23_AfterReset) /\ [][C23_ResetStep]_vars

\* two nodes and an edge; one node had been found dead by a crawl, and the reset
\* took its timestamp too
C23_Witness ==
    /\ ret.op = "reset_all_crawl_timestamps"
    /\ ret.count = 2
    /\ edges # EmptyBag
    /\ \E i \in DOMAIN nodes : nodes[i].is_alive = 0 /\ nodes[i].last_crawled = None

\* C24: in every reachable state of the active graph the source id and the
\* target id of every edge are ids of existing nodes.
C24_EdgesReferenceNodes ==
    \A e \in DOMAIN edges : e[1] \in DOMAIN nodes /\ e[2] \in DOMAIN nodes

\* C25 (as stated): two concurrent discover_links_from_node calls work from
\* snapshots of the URLs that are taken once and never checked again, so a call
\* whose snapshot lacks a link's URL inserts a node for it, also when the other
\* call has inserted that URL since: the graph is left with two nodes for one URL.
C25_UnknownLinkTurn(c) ==
    /\ c \in DOMAIN calls
    /\ calls[c].pc = "loop"
    /\ c \in DOMAIN calls'
    /\ calls'[c].i = calls[c].i + 1
    /\ ~cap_reached(calls[c].nodes_added, calls[c].max_new_nodes)
    /\ calls[c].links[calls[c].i] \notin calls[c].existing_urls

C25_InsertsFromSnapshot ==
    \A c \in Callers :
        C25_UnknownLinkTurn(c)
            => /\ calls'[c].nodes_added = calls[c].nodes_added + 1
               /\ NodeCount(nodes') = NodeCount(nodes) + 1

C25_BothInsert == [][C25_InsertsFromSnapshot]_vars

\* C25 (amended): the snapshots are taken once and never checked again, but url
\* is UNIQUE: when a call reaches a link that its snapshot lacks and the other
\* call has inserted meanwhile, its INSERT fails and the call goes on to the
\* next link without adding a node or an edge or counting anything; no state
\* holds two nodes with one URL.
C25_OneNodePerUrl ==
    \A i, j \in DOMAIN nodes : nodes[i].url = nodes[j].url => i = j

C25_LostInsert ==
    \A c \in Callers :
        C25_UnknownLinkTurn(c)
            => IF select_id(nodes, calls[c].links[calls[c].i]) # None
               THEN /\ nodes' = nodes
                    /\ edges' = edges
                    /\ node_seq' = node_seq
                    /\ calls'[c].nodes_added = calls[c].nodes_added
                    /\ calls'[c].edges_added = calls[c].edges_added
                    /\ calls'[c].new_node_ids = calls[c].new_node_ids
               ELSE /\ calls'[c].nodes_added = calls[c].nodes_added + 1
                    /\ NodeCount(nodes') = NodeCount(nodes) + 1

C25_RaceLeavesNoDuplicate == [](C25_OneNodePerUrl) /\ [][C25_LostInsert]_vars

\* both calls have returned; a URL on both pages was in neither snapshot; one
\* call made the node, the other still does not know the URL and added nothing
C25_Witness ==
    \E c1, c2 \in DOMAIN calls :
        /\ c1 # c2
        /\ calls[c1].pc = "returned"
        /\ calls[c2].pc = "returned"
        /\ \E k1 \in DOMAIN calls[c1].links, k2 \in DOMAIN calls[c2].links :
               LET u == calls[c1].links[k1]
               IN /\ calls[c2].links[k2] = u
                  /\ u \notin calls[c2].existing_urls
                  /\ select_id(nodes, u) # None
                  /\ \E n \in DOMAIN calls[c1].new_node_ids :
                         calls[c1].new_node_ids[n] = unwrap(select_id(nodes, u))
                  /\ Cardinality({i \in DOMAIN nodes : nodes[i].url = u}) = 1
        /\ calls[c2].nodes_added = 0
        /\ calls[c2].edges_added = 0

\* C26: a storage failure of a statement that crawl_single_node,
\* discover_links_from_node, merge_sessions or import_crawler_db runs is never
\* absorbed: the call returns an error, not a success result.  The statements
\* that fail here are the two prepares of merge_sessions on a source database.
C26_StatementFailed(path) ==
    connection_opens(path) /\ (~nodes_prepared(path) \/ ~edges_prepared(path))

C26_FailurePropagates ==
    (ret.op = "merge_sessions"
        /\ \E k \in DOMAIN ret.session_paths : C26_StatementFailed(ret.session_paths[k]))
        => ~ret.result.ok

\* C27: add_edge is idempotent, and what it returns tells the caller whether
\* an edge row was added or the edge was there already: the value returned by a
\* call that added the row is not the value the same call returns when it is
\* repeated and finds the row.
C27_AddEdgeStep ==
    (ret = Idle /\ ret'.op = "add_edge" /\ ret'.ok)
        => LET s == ret'.source_id
               t == ret'.target_id
           IN /\ BagIn(<<s, t>>, edges) => edges' = edges
              /\ CopiesIn(<<s, t>>, edges') = 1
              /\ insert_or_ignore_edge(edges', s, t) = edges'
              /\ ~BagIn(<<s, t>>, edges) => ret'.val # add_edge_value(edges', s, t)

C27_AddEdgeReports == [][C27_AddEdgeStep]_vars

\* C28: crawl_single_node, discover_links_from_node (on its source node) and
\* reset_all_crawl_timestamps never change the URL, the position or created_at
\* of an existing node; a crawl or a discovery writes only title, favicon,
\* is_alive and last_crawled, and only on the crawled or source node; a reset
\* writes only last_crawled.
C28_SameBut(old, new, fields) ==
    \A f \in DOMAIN old : f \notin fields => new[f] = old[f]

C28_FrameStep ==
    /\ (ret = Idle /\ ret'.op \in {"crawl_single_node", "discover_links_from_node"})
           => \A id \in DOMAIN nodes :
                  /\ id \in DOMAIN nodes'
                  /\ nodes'[id].url = nodes[id].url
                  /\ nodes'[id].position = nodes[id].position
                  /\ nodes'[id].created_at = nodes[id].created_at
                  /\ IF id = ret'.node_id
                     THEN C28_SameBut(nodes[id], nodes'[id],
                                      {"title", "favicon", "is_alive", "last_crawled"})
                     ELSE nodes'[id] = nodes[id]
    /\ (ret = Idle /\ ret'.op = "reset_all_crawl_timestamps")
           => /\ DOMAIN nodes' = DOMAIN nodes
              /\ \A id \in DOMAIN nodes : C28_SameBut(nodes[id], nodes'[id], {"last_crawled"})

C28_Frame == [][C28_FrameStep]_vars

\* a crawl gave one of two nodes a new title and a timestamp; the other node
\* is as add_node_url made it
C28_Witness ==
    /\ ret.op = "crawl_single_node"
    /\ ret.result.ok
    /\ NodeCount(nodes) = 2
    /\ nodes[ret.node_id].title = "t1"
    /\ nodes[ret.node_id].last_crawled # None
    /\ \E j \in DOMAIN nodes :
           /\ j # ret.node_id
           /\ nodes[j].title = "t0"
           /\ nodes[j].last_crawled = None

\* C29: discover_links_from_node takes the fetched links in order and stops as
\* soon as nodes_added equals max_new_nodes: no link that stands after the one
\* that made the max_new_nodes-th node gives a node or an edge, while links to
\* existing nodes that stand before that point each get their edge, however
\* many they are (so a call can process more than max_new_nodes links).
C29_Eligible(links, k, src, external_only) ==
    /\ links[k] \notin select_urls(nodes)
    /\ ~(external_only /\ host_str(links[k]) = host_str(nodes[src].url))

\* the links the loop reaches: those up to the one that uses up the cap
C29_Reached(links, src, cap, external_only) ==
    {k \in DOMAIN links :
        Cardinality({j \in 1..(k - 1) : C29_Eligible(links, j, src, external_only)}) < cap}

C29_OrderStep ==
    (ret = Idle /\ ret'.op = "discover_links_from_node" /\ ret'.result.ok)
        => LET links == ret'.fetch.val.links
               src == ret'.node_id
               r == ret'.result.val
               reached == C29_Reached(links, src, ret'.max_new_nodes, ret'.external_only)
               made == {k \in DOMAIN links : C29_Eligible(links, k, src, ret'.external_only)
                                                /\ select_id(nodes', links[k]) # None}
           IN /\ made = {k \in reached : C29_Eligible(links, k, src, ret'.external_only)}
              /\ r.nodes_added = Cardinality(made)
              /\ Len(r.new_node_ids) = Cardinality(made)
              /\ \A n, m \in DOMAIN r.new_node_ids :
                     n < m => \E k, l \in made :
                                  /\ k < l
                                  /\ nodes'[r.new_node_ids[n]].url = links[k]
                                  /\ nodes'[r.new_node_ids[m]].url = links[l]
              /\ \A k \in DOMAIN links :
                     select_id(nodes, links[k]) # None =>
                         LET e == <<src, unwrap(select_id(nodes, links[k]))>>
                         IN IF k \in reached THEN BagIn(e, edges')
                            ELSE BagIn(e, edges') = BagIn(e, edges)
              /\ \A e \in DOMAIN edges' :
                     ~BagIn(e, edges) =>
                         \E k \in reached : /\ e[1] = src
                                            /\ select_id(nodes', links[k]) = Some(e[2])

C29_InOrderUntilCap == [][C29_OrderStep]_vars

\* max_new_nodes = 1: the first link became the node, and the second link,
\* to a node the graph had, got no edge
C29_Witness ==
    /\ ret.op = "discover_links_from_node"
    /\ ret.result.ok
    /\ ret.max_new_nodes = 1
    /\ Len(ret.fetch.val.links) = 2
    /\ ret.result.val.nodes_added = 1
    /\ ret.result.val.edges_added = 1
    /\ select_id(nodes, ret.fetch.val.links[1]) = Some(ret.result.val.new_node_ids[1])
    /\ select_id(nodes, ret.fetch.val.links[2]) # None
    /\ ~BagIn(<<ret.node_id, unwrap(select_id(nodes, ret.fetch.val.links[2]))>>, edges)

\* C30: cleaning a kept link removes exactly one trailing slash: the link of
\* an href whose URL ends in several consecutive slashes is that URL without
\* its last slash only.
C30_OneSlashLess(n) ==
    Link(IF n.lead = "https://" THEN "https" ELSE "http", n.host,
         n.path \o trailing(IF n.slash > 0 THEN n.slash - 1 ELSE 0))

C30_SingleTrailingSlash ==
    ret.op = "links" =>
        \A k \in DOMAIN ret.hrefs :
            LET n == normalized(ret.hrefs[k], ret.base_url)
            IN (n # None /\ unwrap(n).lead \in {"http://", "https://"} /\ ~unwrap(n).long)
                   => contains(ret.links, C30_OneSlashLess(unwrap(n)))

\* C31: every node that discover_links_from_node creates has the host of its
\* link as title, is alive and has never been crawled (a candidate of
\* get_next_crawl_target for every stale_days), has an edge from the source
\* node, and stands exactly once in new_node_ids; no URL is inserted twice in
\* one call.
C31_Created == DOMAIN nodes' \ DOMAIN nodes

C31_CreatedStep ==
    (ret = Idle /\ ret'.op = "discover_links_from_node" /\ ret'.result.ok)
        => LET ids == ret'.result.val.new_node_ids
           IN /\ {ids[n] : n \in DOMAIN ids} = C31_Created
              /\ \A id \in C31_Created :
                     /\ nodes'[id].title = host_str(nodes'[id].url)
                     /\ nodes'[id].is_alive = 1
                     /\ nodes'[id].last_crawled = None
                     /\ \A d \in StaleDays : is_candidate(nodes'[id], now', d)
                     /\ BagIn(<<ret'.node_id, id>>, edges')
                     /\ Cardinality({n \in DOMAIN ids : ids[n] = id}) = 1
                     /\ \E k \in DOMAIN ret'.fetch.val.links :
                            ret'.fetch.val.links[k] = nodes'[id].url
                     /\ nodes'[id].url \notin select_urls(nodes)
              /\ \A i, j \in C31_Created : nodes'[i].url = nodes'[j].url => i = j

C31_CreatedNodes == [][C31_CreatedStep]_vars

\* one call that created two nodes
C31_Witness ==
    /\ ret.op = "discover_links_from_node"
    /\ ret.result.ok
    /\ Len(ret.result.val.new_node_ids) = 2
    /\ ret.result.val.new_node_ids[1] # ret.result.val.new_node_ids[2]
    /\ \A n \in {1, 2} :
           LET id == ret.result.val.new_node_ids[n]
           IN /\ id \in DOMAIN nodes
              /\ nodes[id].last_crawled = None
              /\ nodes[id].title = host_str(nodes[id].url)
              /\ BagIn(<<ret.node_id, id>>, edges)

\* C32: when the source page answers with a non-success status,
\* discover_links_from_node does not abort: it returns Ok with links_found,
\* nodes_added and edges_added all 0, stores the source node as not alive with
\* a fresh last_crawled, keeps its title and favicon, and adds no node and no
\* edge.
C32_NonSuccessStep ==
    (/\ ret = Idle
     /\ ret'.op = "discover_links_from_node"
     /\ ret'.node_id \in DOMAIN nodes
     /\ ret'.fetch = NonSuccessStatusNoLinks)
        => LET id == ret'.node_id
           IN /\ ret'.result.ok
              /\ ret'.result.val.source_node_id = id
              /\ ret'.result.val.links_found = 0
              /\ ret'.result.val.nodes_added = 0
              /\ ret'.result.val.edges_added = 0
              /\ ret'.result.val.new_node_ids = <<>>
              /\ nodes'[id].is_alive = 0
              /\ nodes'[id].last_crawled = Some(now)
              /\ nodes'[id].title = nodes[id].title
              /\ nodes'[id].favicon = nodes[id].favicon
              /\ DOMAIN nodes' = DOMAIN nodes
              /\ \A j \in DOMAIN nodes : j # id => nodes'[j] = nodes[j]
              /\ edges' = edges
              /\ node_seq' = node_seq

C32_DiscoverNonSuccess == [][C32_NonSuccessStep]_vars

\* a source node that an earlier discovery gave a favicon, and that has a
\* discovered neighbour, answered with a non-success status
C32_Witness ==
    /\ ret.op = "discover_links_from_node"
    /\ ret.fetch = NonSuccessStatusNoLinks
    /\ ret.result.ok
    /\ ret.node_id \in DOMAIN nodes
    /\ nodes[ret.node_id].favicon = Some("f1")
    /\ nodes[ret.node_id].is_alive = 0
    /\ nodes[ret.node_id].last_crawled # None
    /\ NodeCount(nodes) > 1
    /\ edges # EmptyBag

\* C33: crawl_single_node and discover_links_from_node called with an id that
\* no node has return a not-found error, fetch nothing, and leave every node
\* and every edge as they were.
C33_NotFoundStep ==
    (/\ ret = Idle
     /\ ret'.op \in {"crawl_single_node", "discover_links_from_node"}
     /\ ret'.node_id \notin DOMAIN nodes)
        => /\ ~ret'.result.ok
           /\ ret'.result.err = IF ret'.op = "crawl_single_node"
                                   THEN "Node not found" ELSE "Source node not found"
           /\ ~ret'.fetched
           /\ nodes' = nodes
           /\ edges' = edges
           /\ node_seq' = node_seq

\* and only then: a call whose id resolves gets as far as the fetch
C33_FoundStep ==
    (/\ ret = Idle
     /\ ret'.op \in {"crawl_single_node", "discover_links_from_node"}
     /\ ret'.node_id \in DOMAIN nodes)
        => ret'.fetched

C33_NotFound == [][C33_NotFoundStep /\ C33_FoundStep]_vars

\* discover_links_from_node was called with id 2 on a graph whose one node is
\* node 1
C33_Witness ==
    /\ ret.op = "discover_links_from_node"
    /\ ret.node_id = 2
    /\ DOMAIN nodes = {1}
    /\ ~ret.result.ok
    /\ ~ret.fetched
    /\ nodes[1].last_crawled = None

\* C34: a node that merge_sessions inserts has the url, title, favicon,
\* screenshot, position, is_alive and last_crawled of a node of one of the
\* session files, a fresh created_at and an id the store assigns anew; the
\* node count of the active graph grows by exactly nodes_merged.
C34_SessionRows(paths) ==
    UNION {{session_nodes(paths[p])[k] : k \in DOMAIN session_nodes(paths[p])} :
              p \in {q \in DOMAIN paths : connection_opens(paths[q]) /\ nodes_prepared(paths[q])}}

C34_CopyOf(row, n) ==
    /\ row.url = n.url
    /\ row.title = n.title
    /\ row.favicon = n.favicon
    /\ row.screenshot = n.screenshot
    /\ row.position = n.position
    /\ row.is_alive = n.is_alive
    /\ row.last_crawled = n.last_crawled

C34_MergeStep ==
    (ret = Idle /\ ret'.op = "merge_sessions")
        => LET new == DOMAIN nodes' \ DOMAIN nodes
           IN /\ ret'.result.ok
              /\ \A id \in DOMAIN nodes : id \in DOMAIN nodes' /\ nodes'[id] = nodes[id]
              /\ NodeCount(nodes') = NodeCount(nodes) + ret'.result.val.nodes_merged
              /\ \A id \in new :
                     /\ id > node_seq
                     /\ id <= node_seq'
                     /\ nodes'[id].created_at = now
                     /\ \E n \in C34_SessionRows(ret'.session_paths) :
                            C34_CopyOf(nodes'[id], n)

C34_MergedCopy == [][C34_MergeStep]_vars

\* the merge of "A" into a graph that had a node already: A's second node,
\* dead and crawled, with favicon and screenshot, was inserted under a new id
C34_Witness ==
    /\ ret.op = "merge_sessions"
    /\ ret.result.val.nodes_merged >= 1
    /\ \E id \in DOMAIN nodes :
           /\ id > 2
           /\ nodes[id].url = Url("b", "x")
           /\ nodes[id].title = "t1"
           /\ nodes[id].favicon = Some("f1")
           /\ nodes[id].screenshot = Some("s1")
           /\ nodes[id].position = 5
           /\ nodes[id].is_alive = 0
           /\ nodes[id].last_crawled = Some(0)

\* C35: a successful discover_links_from_node that runs alone changes the
\* graph by what it reports: the node count grows by nodes_added, which is the
\* length of new_node_ids, the edge count grows by edges_added, every new edge
\* starts at the source node, and nodes_added <= edges_added <= links_found.
C35_ReportStep ==
    (ret = Idle /\ ret'.op = "discover_links_from_node" /\ ret'.result.ok)
        => LET r == ret'.result.val
           IN /\ NodeCount(nodes') = NodeCount(nodes) + r.nodes_added
              /\ r.nodes_added = Len(r.new_node_ids)
              /\ BagCardinality(edges') = BagCardinality(edges) + r.edges_added
              /\ \A e \in DOMAIN edges' : ~BagIn(e, edges) => e[1] = ret'.node_id
              /\ r.nodes_added <= r.edges_added
              /\ r.edges_added <= r.links_found

C35_ReportsChange == [][C35_ReportStep]_vars

\* C36: after a successful discover_links_from_node that ran alone and did
\* not reach its cap, every fetched link that the external_only filter did not
\* skip has a node with its URL and an edge from the source node to that node.
C36_Filtered(link, src, external_only) ==
    /\ external_only
    /\ \A id \in DOMAIN nodes : nodes[id].url # link
    /\ host_str(link) = host_str(nodes[src].url)

C36_LinkedStep ==
    (/\ ret = Idle
     /\ ret'.op = "discover_links_from_node"
     /\ ret'.result.ok
     /\ ret'.result.val.nodes_added < ret'.max_new_nodes)
        => \A k \in DOMAIN ret'.fetch.val.links :
               LET link == ret'.fetch.val.links[k]
               IN ~C36_Filtered(link, ret'.node_id, ret'.external_only)
                      => \E id \in DOMAIN nodes' : /\ nodes'[id].url = link
                                                   /\ BagIn(<<ret'.node_id, id>>, edges')

C36_AllLinked == [][C36_LinkedStep]_vars

\* under a cap of 2, a page with a link to a node the graph had and a link to
\* a URL it had not: both are linked from the source now
C36_Witness ==
    /\ ret.op = "discover_links_from_node"
    /\ ret.result.ok
    /\ ret.max_new_nodes = 2
    /\ ret.result.val.nodes_added = 1
    /\ Len(ret.fetch.val.links) = 2
    /\ \A k \in {1, 2} :
           \E id \in DOMAIN nodes : /\ nodes[id].url = ret.fetch.val.links[k]
                                    /\ BagIn(<<ret.node_id, id>>, edges)

\* C37 (as stated): when two discover_links_from_node calls interleave and
\* both find the same URL that neither knew, the call whose INSERT INTO nodes
\* the UNIQUE constraint rejects creates no edge from its source to the node
\* that holds the URL and counts the link in neither nodes_added nor
\* edges_added, so that after both calls have returned the graph has no edge
\* from that call's source to that node.
C37_RejectedTurn(c) ==
    /\ c \in DOMAIN calls
    /\ calls[c].pc = "loop"
    /\ c \in DOMAIN calls'
    /\ calls'[c].i = calls[c].i + 1
    /\ ~cap_reached(calls[c].nodes_added, calls[c].max_new_nodes)
    /\ calls[c].links[calls[c].i] \notin calls[c].existing_urls
    /\ \E id \in DOMAIN nodes : nodes[id].url = calls[c].links[calls[c].i]

C37_NoEdgeNoCount ==
    \A c \in Callers :
        C37_RejectedTurn(c)
            => /\ edges' = edges
               /\ nodes' = nodes
               /\ calls'[c].nodes_added = calls[c].nodes_added
               /\ calls'[c].edges_added = calls[c].edges_added
               /\ calls'[c].new_node_ids = calls[c].new_node_ids

\* the links of call c whose turn is over and whose URL the call still does
\* not know: their INSERT was rejected
C37_Lost(c) ==
    {k \in DOMAIN calls[c].links :
        /\ k < calls[c].i - (IF calls[c].stopped THEN 1 ELSE 0)
        /\ ~calls[c].external_only
        /\ calls[c].links[k] \notin calls[c].existing_urls}

C37_BothReturned ==
    /\ DOMAIN calls = Callers
    /\ \A c \in Callers : calls[c].pc = "returned"

C37_EdgeOfLost(c, k) ==
    \E id \in DOMAIN nodes : /\ nodes[id].url = calls[c].links[k]
                             /\ BagIn(<<calls[c].node_id, id>>, edges)

C37_AbsentAfterBoth ==
    C37_BothReturned => \A c \in Callers : \A k \in C37_Lost(c) : ~C37_EdgeOfLost(c, k)

C37_RelationAbsent == [](C37_AbsentAfterBoth) /\ [][C37_NoEdgeNoCount]_vars

\* C37 (amended): the rejected call creates no edge and counts nothing; after
\* both calls have returned the graph has an edge from that call's source to
\* the node exactly when the other call, which created the node and linked it
\* from its own source, started from the same source node.
C37_WonBy(c, k) ==
    {d \in Callers \ {c} :
        \E n \in DOMAIN calls[d].new_node_ids :
            nodes[calls[d].new_node_ids[n]].url = calls[c].links[k]}

C37_AbsentUnlessSameSource ==
    C37_BothReturned =>
        \A c \in Callers : \A k \in C37_Lost(c) :
            /\ C37_WonBy(c, k) # {}
            /\ C37_EdgeOfLost(c, k)
                   <=> \E d \in C37_WonBy(c, k) : calls[d].node_id = calls[c].node_id

C37_RelationAbsentAcrossSources ==
    [](C37_AbsentUnlessSameSource) /\ [][C37_NoEdgeNoCount]_vars

\* both calls have returned; they started from different nodes, a URL on both
\* pages was in neither snapshot; the call that lost added nothing, and only
\* the other call's source is linked to the node
C37_Witness ==
    /\ C37_BothReturned
    /\ \E c, d \in Callers :
           /\ c # d
           /\ calls[c].node_id # calls[d].node_id
           /\ \E k \in C37_Lost(c) :
                  /\ d \in C37_WonBy(c, k)
                  /\ ~C37_EdgeOfLost(c, k)
                  /\ \E id \in DOMAIN nodes : /\ nodes[id].url = calls[c].links[k]
                                              /\ BagIn(<<calls[d].node_id, id>>, edges)
           /\ calls[c].nodes_added = 0
           /\ calls[c].edges_added = 0

\* C38: while a caller keeps calling get_next_crawl_target(stale_days) and
\* then crawl_single_node on the node returned, no node is added, no timestamp
\* is reset and less than stale_days passes, then whatever the fetches answer
\* (success, non-success status, transport failure) every node is crawled at
\* most once, each crawl lowers the pending count, and in the end
\* get_next_crawl_target returns None.
C38_OnceEach ==
    driver # Off =>
        \A n, m \in DOMAIN driver.crawled : driver.crawled[n] = driver.crawled[m] => n = m

C38_CrawlStep ==
    (driver # Off /\ driver.pc = "crawl" /\ driver'.pc = "target")
        => /\ ret'.op = "crawl_single_node"
           /\ ret'.result.ok
           /\ \A n \in DOMAIN driver.crawled : driver.crawled[n] # ret'.node_id
           /\ nodes_pending(nodes', now', driver.stale_days)
                  < nodes_pending(nodes, now, driver.stale_days)

C38_Running == driver # Off

C38_NoTarget ==
    /\ driver.pc = "done"
    /\ ret.op = "get_next_crawl_target"
    /\ ret.node = None

C38_DriverComesToAnEnd ==
    /\ [](C38_OnceEach)
    /\ [][C38_CrawlStep]_vars
    /\ (C38_Running ~> C38_NoTarget)

\* a loop that crawled two nodes, one answered and one did not, while the
\* clock moved, and then got None
C38_Witness ==
    /\ C38_NoTarget
    /\ Len(driver.crawled) = 2
    /\ now > driver.start
    /\ \E i, j \in DOMAIN nodes : /\ nodes[i].is_alive = 1
                                  /\ nodes[j].is_alive = 0
                                  /\ nodes[i].last_crawled # None
                                  /\ nodes[j].last_crawled # None

\* C39: the id that add_node_url and add_node_with_position return is the id
\* of a node of the active graph whose URL is the URL passed in, both when the
\* node was created by the call and when a node with that URL existed before
\* (and then the graph is left as it was).
C39_AddNodeStep ==
    (ret = Idle /\ ret'.op = "add_node")
        => /\ ret'.ok
           /\ ret'.id \in DOMAIN nodes'
           /\ nodes'[ret'.id].url = ret'.url
           /\ (\E i \in DOMAIN nodes : nodes[i].url = ret'.url)
                  => /\ nodes' = nodes
                     /\ edges' = edges
                     /\ node_seq' = node_seq

C39_ReturnedIdIsTheNode == [][C39_AddNodeStep]_vars

\* C40: for every session database that merge_sessions reads, each of its node
\* rows is counted once, in nodes_merged or in nodes_skipped (their sum grows
\* by the number of its nodes), and every node id of the database has an entry
\* in its id map, so that no edge between two of its nodes is dropped for want
\* of a mapping.
C40_Counted(passes, l) ==
    IF l = 0 THEN 0 ELSE passes[l].nodes_merged + passes[l].nodes_skipped

C40_Ids(path) == {session_nodes(path)[j].id : j \in DOMAIN session_nodes(path)}

C40_CountStep ==
    (ret = Idle /\ ret'.op = "merge_sessions")
        => LET paths == ret'.session_paths
           IN \A l \in DOMAIN paths :
                  IF connection_opens(paths[l]) /\ nodes_prepared(paths[l])
                  THEN /\ C40_Counted(ret'.passes, l)
                              = C40_Counted(ret'.passes, l - 1) + Len(session_nodes(paths[l]))
                       /\ C40_Ids(paths[l]) \subseteq DOMAIN ret'.id_maps[l]
                       /\ \A j \in DOMAIN session_nodes(paths[l]) :
                              LET n == session_nodes(paths[l])[j]
                                  id == ret'.id_maps[l][n.id]
                              IN /\ id \in DOMAIN nodes'
                                 /\ to_lowercase(nodes'[id].url) = to_lowercase(n.url)
                       /\ edges_prepared(paths[l]) =>
                              \A k \in DOMAIN session_edges(paths[l]) :
                                  LET e == session_edges(paths[l])[k]
                                  IN (e[1] \in C40_Ids(paths[l]) /\ e[2] \in C40_Ids(paths[l]))
                                         => BagIn(<<ret'.id_maps[l][e[1]], ret'.id_maps[l][e[2]]>>,
                                                  edges')
                  ELSE C40_Counted(ret'.passes, l) = C40_Counted(ret'.passes, l - 1)

C40_EveryRowCounted == [][C40_CountStep]_vars

\* "B" merged into a graph that held b/x, then "A": B's first node was
\* inserted and its second, the same URL in other case, skipped; both nodes of
\* "A" were skipped; four rows, four counted
C40_Witness ==
    /\ ret.op = "merge_sessions"
    /\ ret.session_paths = <<"B", "A">>
    /\ ret.result.val.nodes_merged = 1
    /\ ret.result.val.nodes_skipped = 3
    /\ DOMAIN ret.id_maps[1] = {1, 3}
    /\ ret.id_maps[1][1] = ret.id_maps[1][3]
    /\ DOMAIN ret.id_maps[2] = {1, 2}
    /\ BagIn(<<ret.id_maps[2][1], ret.id_maps[2][2]>>, edges)

====
